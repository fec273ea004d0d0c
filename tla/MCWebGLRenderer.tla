---------------------------- MODULE MCWebGLRenderer ----------------------------
(* Constants for model checking WebGLRenderer. *)
EXTENDS WebGLRenderer

CONSTANTS a, b

MCSources == {a, b}
================================================================================
