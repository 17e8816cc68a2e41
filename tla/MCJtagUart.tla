----------------------------- MODULE MCJtagUart -----------------------------
(* The driver of the JTAG UART on rings of three slots and FIFOs of one.   *)
(* A scenario, chosen at the start, narrows what the program and the host  *)
(* do: two kinds of bytes tell whether they keep their order, one kind is  *)
(* enough where time passes and the host goes away.                        *)
EXTENDS JtagUart, SequencesExt
CONSTANTS a, b
VARIABLE scenario

MCOps == {"write", "read", "close", "ioctl"}
TwoBytes == {a, b}

Transmit == [calls |-> {"fill"}, count |-> 3, bytes |-> {a, b}, keys |-> {},
             time |-> FALSE]
Receive  == [calls |-> {"take"}, count |-> 3, bytes |-> {}, keys |-> {a, b},
             time |-> FALSE]
Writing  == [calls |-> {"fill", "drain"}, count |-> 3, bytes |-> {a},
             keys |-> {}, time |-> TRUE]
Reading  == [calls |-> {"take", "taken"}, count |-> 1, bytes |-> {},
             keys |-> {a}, time |-> TRUE]
Together == [calls |-> {"fill", "take"}, count |-> 1, bytes |-> {a},
             keys |-> {a}, time |-> FALSE]
Settings == [calls |-> {"idle", "drain"}, count |-> 0, bytes |-> {},
             keys |-> {}, time |-> TRUE]

MCInit ==
  /\ Init
  /\ scenario \in {Transmit, Receive, Writing, Reading, Together,
                  Settings}
  /\ \A k \in Slot : tx_buf[k] = a

MCNext ==
  /\ \/ /\ Calls
        /\ pc' \in scenario.calls
        /\ nonblock' => scenario.time
        /\ Len(data') <= scenario.count /\ left' <= scenario.count
        /\ ToSet(data') \subseteq scenario.bytes
     \/ Proceed \/ Isr \/ HostSend \/ HostRead
     \/ \E k \in scenario.keys : HostType(k)
     \/ scenario.time /\ (Timeout \/ Detach \/ HostPause)
  /\ UNCHANGED scenario

MCSpec == MCInit /\ [][MCNext]_<<vars, scenario>> /\ Fairness
=============================================================================
