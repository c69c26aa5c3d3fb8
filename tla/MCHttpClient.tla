---------------------------- MODULE MCHttpClient ----------------------------
(* Two requests at a time, one of a method that is retried and one of a     *)
(* method that is not; lifetimes short and long against the buffer.         *)
EXTENDS HttpClient

CONSTANTS get, post

MCTasks == {get, post}
MCIdempotent == {get}
MCLifetimes == {3, 5}
==============================================================================
