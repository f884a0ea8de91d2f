--------------------------- MODULE MCHttp2Session ---------------------------
(* Stream 1 brings every kind of request and answer, stream 3 a plain request  *)
(* with a small answer beside it.                                              *)
EXTENDS Http2Session

MCStreams == {1, 3}
First(s, all, one) == IF s = 1 THEN all ELSE one
MCBodies == [s \in MCStreams |-> First(s, {"none", "mid", "big", "ws"}, {"none"})]
MCAnswers == [s \in MCStreams |-> First(s, {"large", "streamed", "file"}, {"small"})]
MCFates == [s \in MCStreams |-> First(s, {"spawn", "static", "shed", "fail"}, {"spawn"})]
=============================================================================
