------------------------------ MODULE MCBatcher ------------------------------
(* Batcher with four items, so that a batch fills up, another one is         *)
(* collected, and the channel is full while Shutdown wants to send.          *)
EXTENDS Batcher

=============================================================================
