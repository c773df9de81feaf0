----------------------------- MODULE MCParsing -----------------------------
\* Small instances of Parsing for TLC.
EXTENDS Parsing

Alphabet == {"G", "P", "H", "L", "v", "x", "b", "c", "d", "e", "1", "2", "3", "4", CR, LF}

Get(other) == [line |-> <<"G", "v">>, other |-> other, body |-> << >>]
Put(body) == [line |-> <<"P", "v">>, other |-> << >>, body |-> body]
OtherHeader == <<"H", "x">> \o CRLF

\* Bodies with and without other headers, pipelined behind one another; a body
\* of several pieces; a request line and a body beyond the limits.
Pipelines ==
    { <<Get(OtherHeader), Put(<<"b", "c">>), Get(<< >>)>>,
      <<Put(<<"b", "c", "d">>), Put(<<"e">>)>>,
      <<Get(<< >>), [line |-> <<"G", "x", "x", "v">>, other |-> << >>, body |-> << >>]>>,
      <<Get(OtherHeader), Put(<<"b", "c", "d", "e">>)>> }
=============================================================================
