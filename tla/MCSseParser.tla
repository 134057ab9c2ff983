----------------------------- MODULE MCSseParser -----------------------------
(* Instance of the SseParser for TLC; its bounds are in SseParser.cfg.      *)
EXTENDS SseParser
=============================================================================
