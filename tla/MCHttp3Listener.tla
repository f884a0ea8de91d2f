-------------------------- MODULE MCHttp3Listener --------------------------
(* Two reactors, two clients behind one IP; the second address hashes to the  *)
(* other reactor, so a client that moves there is steered back.               *)
EXTENDS Http3Listener

MCHome == <<1, 2>>
MCIp == <<1, 2>>
MCStart == <<1, 1>>
MCMaxArrivals == <<4, 1>>
=============================================================================
