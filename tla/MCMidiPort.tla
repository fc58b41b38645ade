------------------------------ MODULE MCMidiPort ------------------------------
EXTENDS MidiPort

\* Both sides of every mask.
MCOctets == {0, 1, 15, 16, 127, 128, 144, 255}
MCValues14 == {0, 1, 127, 128, 8192, 16383, 16384, 32767, 32768, 65535}
=============================================================================
