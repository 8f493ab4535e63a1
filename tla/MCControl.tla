------------------------------- MODULE MCControl -------------------------------
(* Two runs of wackatrl against one daemon: each pair of commands that meets. *)
EXTENDS Control

CONSTANTS c1, c2

Pair(x, y) == [c \in Client |-> IF c = c1 THEN x ELSE y]
MCAsked == {Pair("WACK_SERVICE_FAILURE", "GET_WACK_STATE"),
            Pair("WACK_SERVICE_FAILURE", "WACK_SERVICE_SUCCESS"),
            Pair("GET_WACK_STATE", "WACK_SERVICE_SUCCESS")}
=============================================================================
