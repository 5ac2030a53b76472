\* Two frames, a packet of sound and a cue: seeks, track changes and wraps,
\* two of them in all, one after another or the second while the first is
\* still under way.
CONSTANTS
  Packets <- Film
  Keyframes = {1, 3}
  RingSlots = 2
  AudioCap = 1
  Slack = 1
  Off = Off
  Subtitles = {Off, s1}
  Targets = {3}
  MaxTurns = 2
SPECIFICATION PlayedOutSpec
\* A decoder that was destroyed has nothing left to do.
CHECK_DEADLOCK FALSE
INVARIANT RingConsistent
PROPERTIES
  PictureIsTrue
  CallsEnd
