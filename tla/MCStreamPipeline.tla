-------------------------- MODULE MCStreamPipeline --------------------------
(* Small instances of StreamPipeline: channels of two chunks, answers that *)
(* fit in one of them and answers that overflow both.                      *)
EXTENDS StreamPipeline

FourSymbols  == {"a", "b", "_", "/"}
ShortAnswers == {<<>>, <<<<"a">>, <<"_", "b">>>>}
LongAnswers  == {<<<<"a">>, <<"_">>, <<"b">>>>,
                 <<<<"a">>, <<"b">>, <<"/">>, <<"a">>, <<"_">>, <<"b">>, <<"b">>>>}
EveryAnswer  == ShortAnswers \union LongAnswers
WholeAnswers == {<<>>, <<"a", "_", "b">>, <<"a", "b", "/", "a", "_", "b", "b", "_">>}
Texts        == {<<"a", "_", "b">>, <<"b", "/", "a", "b", "_", "b">>}
OneLine      == {<<"a", "_", "b">>}

AllTransports == {"grpc", "sse", "ws"}
OnlyWS        == {"ws"}
EveryFault    == {"cut", "fail", "leave", "timeout"}
NoFault       == {}
Both          == BOOLEAN
Yes           == {TRUE}
=============================================================================
