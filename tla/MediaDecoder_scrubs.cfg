\* The film of MediaDecoder_seeks, with every call at any time.
CONSTANTS
  Packets <- Film
  Keyframes = {1, 3}
  RingSlots = 2
  AudioCap = 1
  Slack = 1
  Off = Off
  Subtitles = {Off, s1}
  Targets = {3}
  MaxTurns = 2
SPECIFICATION Spec
\* A decoder that was destroyed has nothing left to do.
CHECK_DEADLOCK FALSE
INVARIANT ResetHasTheRing
