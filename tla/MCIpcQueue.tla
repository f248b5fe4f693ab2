---------------------------- MODULE MCIpcQueue ----------------------------
(* A ring of 3 slots of 2 bytes: payloads longer than a slot, wraps of both *)
(* indices, a full ring and slots reused by shorter messages all occur.     *)
EXTENDS IpcQueue

MCPayloads == { << >>, <<1>>, <<1, 0>>, <<0, 1, 1>> }
MCReceivers == {0, 1, 2}
=============================================================================
