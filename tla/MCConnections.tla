--------------------------- MODULE MCConnections ----------------------------
EXTENDS Connections

HeadersVal == {<<"h">> \o CRLF \o CRLF, CRLF \o <<"h">> \o CRLF \o CRLF}
Sixteen == [i \in 1 .. 16 |-> IF i % 3 = 0 THEN "LF" ELSE IF i % 3 = 2 THEN "CR" ELSE "1"]
BodiesVal == {
    [chunks |-> <<>>, lines |-> << <<"0", "0">> >>],
    [chunks |-> << <<"x", "1">> >>, lines |-> << <<"2">>, <<"0">> >>],
    [chunks |-> << <<"CR", "LF", "1">>, <<"x">> >>,
     lines |-> << <<"0", "3">>, <<"1", ";", "2">>, <<"0">> >>],
    [chunks |-> << <<"0", "CR">>, <<"LF", "CR", "LF">> >>,
     lines |-> << <<"2">>, <<"3">>, <<"0", ";", "1">> >>],
    [chunks |-> << Sixteen >>, lines |-> << <<"1", "0">>, <<"0">> >>]}

FramesVal == {[op |-> 1, text |-> t, form |-> f] : t \in {<<>>, <<1, 129>>}, f \in {7, 16, 64}}

RequestHeadersVal == {<<"k", "k", "k", "k">> \o CRLF \o CRLF,
                      <<"k", "k", "CR", "LF", "k">> \o CRLF \o CRLF}
H1 == [key |-> <<"k">>, value |-> <<"v">>]
H2 == [key |-> <<"l">>, value |-> <<"w">>]
FormsVal == {<<[head |-> <<H1>>, content |-> c]>> :
                c \in {<<>>, <<"d">>, <<"d", "CR", "LF", "-">>, <<"b">>, <<"d", "b", "c">>}}
    \cup {<<[head |-> h, content |-> <<"CR">>]>> :
                h \in {<<>>, <<[key |-> <<>>, value |-> <<"-", "-", "b", "c">>]>>,
                       <<[key |-> <<"k">>, value |-> <<"v", ":">>]>>}}
    \cup {<<[head |-> <<H1, H2>>, content |-> <<"d">>],
            [head |-> <<H2, H1>>, content |-> <<"LF", "-", "-">>]>>}
PlainBodiesVal == {<<>>, <<"d", "CR", "LF", "b">>}
BoundaryVal == <<"b", "c">>
DashedBoundaryVal == <<"b", "-", "c">>
ParameterVal == <<"u">>
=============================================================================
