------------------------------- MODULE Autosar -------------------------------
(***************************************************************************)
(* The bit-field layer of core/src/autosar.rs: COM signals packed into one *)
(* shared payload word, and the register bank of the simulated DIO driver. *)
(* Components write their signals and channels in any order; what each of  *)
(* them must be able to rely on is that nobody else's write moves its own  *)
(* bits.  Shifts and masks are arithmetic on naturals; the widths (64-bit  *)
(* payload, 32 pins, 16 ports in the code) are parameters.                 *)
(***************************************************************************)
EXTENDS Integers, Option

CONSTANTS
    Width,        \* bits of the payload word
    Database,     \* <<start_bit, length_bits>> entries of signals.toml
    Ports, Pins   \* ports of the bank, pins of a port

\* What the constants have to be.
ASSUME AutosarAssumption ==
    /\ Width \in Nat \ {0}
    /\ Database \subseteq (0 .. 255) \X (0 .. 255)
    /\ Ports \in Nat \ {0} /\ Pins \in Nat \ {0}
    /\ None \notin Int

VARIABLES
    pdu,          \* the PDU word
    packed,       \* the value each signal was last given
    ports,        \* the port words
    driven,       \* the level each channel was last given
    autResult     \* what the last call returned

autvars == <<pdu, packed, ports, driven, autResult>>

\* cmd_signals (cli/src/main.rs) writes one Signal::new per entry, each number
\* cut to a byte: an entry of 256 or more would become another layout, and
\* AutosarAssumption leaves those out.
cmd_signals(entry) == <<entry[1] % 256, entry[2] % 256>>

Layouts == {cmd_signals(entry) : entry \in Database}

\* Signal::new: the layouts it does not reject.
Signals == {s \in Layouts : s[2] >= 1 /\ s[2] <= Width /\ s[1] + s[2] <= Width}

Channels == (0 .. Ports - 1) \X (0 .. Pins - 1)

\* The configuration gives no bit to two signals.
ASSUME SignalsAreDisjoint ==
    \A s, t \in Signals : s # t => s[1] + s[2] <= t[1] \/ t[1] + t[2] <= s[1]

pow2[n \in Nat] == IF n = 0 THEN 1 ELSE 2 * pow2[n - 1]

mask(s) == pow2[s[2]] - 1

unpack(s, word) == (word \div pow2[s[1]]) % (mask(s) + 1)

\* Mutant: the old value is not cleared, the new one is added to it.
packUncleared(s, word, value) ==
    IF value > mask(s) THEN None ELSE word + value * pow2[s[1]]

\* The signal's bits are cleared and the value is put in their place.
pack(s, word, value) ==
    IF value > mask(s) THEN None
    ELSE (word - unpack(s, word) * pow2[s[1]]) + value * pow2[s[1]]

\* SimDio: one bit of a port word.
from_bool(word, pin) == IF (word \div pow2[pin]) % 2 = 1 THEN "High" ELSE "Low"

read_channel(port, pin) == from_bool(ports[port], pin)

\* Mutant: the bit is toggled instead of set or cleared.
withToggled(word, pin, level) ==
    IF from_bool(word, pin) = "Low" THEN word + pow2[pin] ELSE word - pow2[pin]

\* The port word with one bit set or cleared.
withLevel(word, pin, level) ==
    IF from_bool(word, pin) = level THEN word
    ELSE IF level = "High" THEN word + pow2[pin]
    ELSE word - pow2[pin]

-----------------------------------------------------------------------------
autInit ==
    /\ pdu = 0
    /\ packed = [s \in Signals |-> 0]
    /\ ports = [p \in 0 .. Ports - 1 |-> 0]
    /\ driven = [c \in Channels |-> "Low"]
    /\ autResult = "Ok"

\* A component packs a value into its signal; one that does not fit is
\* refused and the component keeps the payload it has.
packSignal(s, value) ==
    /\ IF pack(s, pdu, value) = None
       THEN autResult' = "None" /\ UNCHANGED <<pdu, packed>>
       ELSE /\ pdu' = pack(s, pdu, value)
            /\ packed' = [packed EXCEPT ![s] = value]
            /\ autResult' = "Ok"
    /\ UNCHANGED <<ports, driven>>

write_channel(port, pin, level) ==
    /\ IF port \notin 0 .. Ports - 1
       THEN autResult' = "InvalidArgument" /\ UNCHANGED <<ports, driven>>
       ELSE /\ ports' = [ports EXCEPT ![port] = withLevel(@, pin, level)]
            /\ driven' = [driven EXCEPT ![<<port, pin>>] = level]
            /\ autResult' = "Ok"
    /\ UNCHANGED <<pdu, packed>>

\* Values up to one too many for the signal, ports up to one too many.
autNext ==
    \/ \E s \in Signals : \E value \in 0 .. mask(s) + 1 : packSignal(s, value)
    \/ \E port \in 0 .. Ports, pin \in 0 .. Pins - 1, level \in {"Low", "High"} :
          write_channel(port, pin, level)

autSpec == autInit /\ [][autNext]_autvars

-----------------------------------------------------------------------------
(* Properties *)

\* Every signal reads back the value it was last given, whatever the other
\* signals of the payload were given since, at both ends of the word, and the
\* payload never outgrows its width.
SignalsAreIndependent ==
    /\ pdu \in 0 .. pow2[Width] - 1
    /\ \A s \in Signals : unpack(s, pdu) = packed[s]

\* Every channel reads back the level it was last given, whatever was written
\* to the other pins of its port since.
ChannelsAreIndependent ==
    \A c \in Channels : read_channel(c[1], c[2]) = driven[c]
=============================================================================
