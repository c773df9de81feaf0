---------------------------- MODULE MCResponses ----------------------------
\* Small instances of Responses for TLC.
EXTENDS Responses

KindIsName == [p \in Paths |-> p]

Ask(meth, path) ==
    [meth |-> meth, path |-> path, cc |-> "none", arg |-> 0, accept |-> "unsaid",
     error |-> "none"]

Get(cc, arg) == [Ask("GET", "reg") EXCEPT !.cc = cc, !.arg = arg, !.accept = "gzip"]
Wrong(error) == [Ask("GET", "reg") EXCEPT !.error = error]

Script(r1, r2, w) == [k \in Conns |-> CASE k = "reader1" -> r1
                                        [] k = "reader2" -> r2
                                        [] k = "writer" -> w]

\* Readers of one file beside a writer of it; all the cache directives, each with a
\* reader that keeps the entry in the cache; everything else that can be asked for.
ReadersAndWriter ==
    { Script(<<Get("none", 0)>>, <<Get("only_if_cached", 0)>>, <<Ask("PUT", "reg")>>),
      Script(<<Get("none", 0), Ask("HEAD", "reg")>>, << >>, <<Ask("PUT", "reg")>>),
      Script(<<Get("none", 0)>>, <<Get("max_age", 0), Ask("HEAD", "reg")>>, << >>),
      Script(<<Get("none", 0)>>, << >>, <<Ask("POST", "reg"), Ask("PUT", "reg")>>),
      Script(<<Get("no_cache", 0), Get("min_fresh", 1)>>, <<Get("only_if_cached", 0)>>, << >>),
      Script(<<Ask("GET", "reg")>>, <<Get("no_store", 0), Get("max_stale", 0)>>, << >>),
      Script(<<Get("none", 0), Wrong("uri")>>, << >>,
             <<Ask("CONNECT", "reg"), Ask("GET", "dir"), Ask("PUT", "sock"), Ask("GET", "sock"),
               Ask("PUT", "none"), Ask("OPTIONS", "none")>>),
      Script(<<Get("none", 0)>>, <<Ask("OPTIONS", "reg")>>,
             <<Wrong("uri"), Wrong("header"), Ask("DELETE", "reg")>>) }

\* Connections that read and write.
Mixed == { Script(<<Get("none", 0), Ask("POST", "reg")>>, <<Get("none", 0)>>, << >>) }
=============================================================================
