-------------------------- MODULE SoundParameters ---------------------------
(* The sound module, SoundModule and Tone, and the set-up of the codec,    *)
(* AuSetup, with the codec at the other end of both.                       *)
EXTENDS Integers

CONSTANTS
  WIDTH,           \* bits of a sample, 16
  Phases, Low,     \* phases of a period, 2^16, and those with one sample, 2^8
  Octave,          \* the keys that have an increment, 60 to 71
  Keys, Velocities, \* values of the register's fields
  Delta(_),        \* the increment of a key
  Wave(_, _),      \* sine by address and velocity, WIDTH bits
  MinHalf, MaxHalf, \* clock cycles for which bclk stays at one level
  BitsPerChannel,  \* periods of bclk in each level of daclrc
  ByteBits,        \* bits of a byte, 8
  HALF,            \* clock cycles for which i2c_sclk stays at one level, 128
  LADDR,           \* the last address of the table dato, 7
  Table(_),        \* the table: the three bytes of an address, as bits
  MaxRefusals      \* bound: bytes the codec refuses

Bits == [1 .. WIDTH -> {0, 1}]

ASSUME SoundAssumption ==
  /\ WIDTH \in Nat \ {0, 1} /\ Phases \in Nat \ {0} /\ Low \in Nat \ {0}
  /\ Octave \subseteq Keys /\ \A k \in Octave : Delta(k) \in 0 .. Phases - 1
  /\ \A q \in 0 .. Phases - 1, v \in Velocities : Wave(q \div Low, v) \in Bits
  /\ MinHalf \in Nat /\ MinHalf >= 2
  /\ MaxHalf \in Nat /\ MaxHalf >= MinHalf
  /\ BitsPerChannel \in Nat /\ BitsPerChannel > WIDTH
  /\ ByteBits \in Nat \ {0, 1} /\ HALF \in Nat /\ HALF >= 2
  /\ LADDR \in Nat /\ MaxRefusals \in Nat
  /\ \A a \in 0 .. LADDR : Table(a) \in [1 .. 3 * ByteBits -> {0, 1}]
=============================================================================
