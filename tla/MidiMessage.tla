---------------------------- MODULE MidiMessage ----------------------------
(***************************************************************************)
(* MidiMessage of tpt-av-test-mock/src/midi_port.rs: the wire bytes that   *)
(* its constructors build from any u8, and what its queries read back.     *)
(* The masks 0x0F and 0x7F are remainders.                                 *)
(***************************************************************************)
EXTENDS Integers, Sequences

CONSTANTS
    Octets,         \* values of a u8 argument
    Values14        \* values of the u16 argument of pitch_bend

ASSUME MidiMessageAssumption ==
    /\ \A x \in Octets : x \in Nat /\ x < 256
    /\ \A v \in Values14 : v \in Nat /\ v < 65536

None == -1

new(bytes) == [bytes |-> bytes, timestamp_us |-> 0]

with_timestamp(bytes, timestamp_us) == [bytes |-> bytes, timestamp_us |-> timestamp_us]

\* Mutant of Voice: the channel is not masked.
VoiceUnmasked(kind, channel) == (kind + channel) % 256

\* kind | (channel & 0x0F), for a kind whose low nibble is zero.
Voice(kind, channel) == kind + (channel % 16)

note_on(channel, note, velocity) == new(<<Voice(144, channel), note % 128, velocity % 128>>)

note_off(channel, note, velocity) == new(<<Voice(128, channel), note % 128, velocity % 128>>)

control_change(channel, controller, value) ==
    new(<<Voice(176, channel), controller % 128, value % 128>>)

program_change(channel, program) == new(<<Voice(192, channel), program % 128>>)

\* The high byte is cut to eight bits, not to seven.
pitch_bend(channel, value14) ==
    new(<<Voice(224, channel), value14 % 128, (value14 \div 128) % 256>>)

sysex(data) == new(<<240>> \o data \o <<247>>)

status(m) == IF m.bytes = <<>> THEN None ELSE m.bytes[1]

channel(m) == IF status(m) \in 128 .. 239 THEN status(m) % 16 ELSE None

\* Whatever the velocity: a note-on of velocity zero counts as one.
is_note_on(m) == status(m) \in 144 .. 159

-----------------------------------------------------------------------------
(* What the constructors promise *)

\* A voice message: a status byte, data bytes without the top bit, and the
\* channel that went in, all of it told from the message alone.  Only a note-on
\* is taken for one.
WellFormed(m, kind, ch) ==
    /\ status(m) = kind + channel(m) /\ channel(m) = ch % 16
    /\ \A i \in 2 .. Len(m.bytes) : m.bytes[i] \in 0 .. 127
    /\ is_note_on(m) => kind = 144

\* No argument spills into the status byte or into another argument: channel
\* and kind are read back, a note-on with a velocity is taken for one, and a
\* system exclusive message has no channel.
VoiceRight(c, x, y) ==
    /\ WellFormed(note_on(c, x, y), 144, c)
    /\ y % 128 # 0 => is_note_on(note_on(c, x, y))
    /\ WellFormed(note_off(c, x, y), 128, c)
    /\ WellFormed(control_change(c, x, y), 176, c)
    /\ WellFormed(program_change(c, x), 192, c)
    /\ channel(sysex(<<x, y>>)) = None /\ ~is_note_on(sysex(<<x, y>>))

\* Nor does a bend of 14 bits, whose value is read back; of a longer one the
\* fifteenth bit is left in the last data byte.
BendRight(c, v) ==
    LET bend == pitch_bend(c, v) IN
    /\ channel(bend) = c % 16
    /\ bend.bytes[2] + 128 * bend.bytes[3] = IF v < 32768 THEN v ELSE v - 32768
    /\ v < 16384 => WellFormed(bend, 224, c)

=============================================================================
