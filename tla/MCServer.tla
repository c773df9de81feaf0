------------------------------ MODULE MCServer ------------------------------
\* Small instances of Server for TLC.
EXTENDS Server, TLC

CONSTANTS c1, c2, w1, w2, w3

\* One client pipelines two requests.
TwoAndOne == c1 :> 2 @@ c2 :> 1

OneEach == c1 :> 1 @@ c2 :> 1

\* The chunks the store starts with.
AllChunks == <<w1, w2, w3>>

OneChunk == <<w1>>
=============================================================================
