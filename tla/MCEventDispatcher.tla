-------------------------- MODULE MCEventDispatcher --------------------------
(* EventDispatcher with few events on a short clock.                         *)
EXTENDS EventDispatcher
=============================================================================
