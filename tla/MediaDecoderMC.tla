---------------------------- MODULE MediaDecoderMC ----------------------------
(* A short film for TLC: two frames, a cue and a packet of sound.          *)
EXTENDS MediaDecoder

Film == <<"v", "a", "v", "s">>

(* Bound: once a seek has overlapped another, in a film that is not looped *)
(* or destroyed by then, the film is played out: it is no longer paused,   *)
(* resumed, looped or destroyed.                                           *)
PlayedOut ==
  /\ overlapped' => ~ctl.quit /\ ~ctl.looping
  /\ overlapped => <<ctl'.playing, ctl'.looping, ctl'.quit>> = <<ctl.playing, ctl.looping, ctl.quit>>

PlayedOutSpec == Init /\ [][Next /\ PlayedOut]_vars /\ Fairness
=============================================================================
