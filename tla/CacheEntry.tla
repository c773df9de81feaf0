----------------------------- MODULE CacheEntry -----------------------------
(***************************************************************************)
(* HTTP_CacheEntry: a response as it is kept in the cache, its age and its *)
(* freshness, and the manipulators that change how it is output "for just  *)
(* this time".  Entries are records; the workers that hold an entry share  *)
(* it.                                                                     *)
(***************************************************************************)
EXTENDS Integers

CONSTANTS
    Lifetime    \* 60 * cache_expires: how long after it is made an entry expires

ASSUME LifetimeAssumption == Lifetime \in Nat

\* contents: which contents of the file _buf holds; warned: there is a Warning
\* header in hdrs; late is a history field, see Responses.
Entry(Versions, Times) ==
    [contents: Versions, last_modified: Times, request_time: Times,
     response_time: Times, expires_value: Nat, warned: BOOLEAN,
     omit_body: BOOLEAN, asif_uncompressed: BOOLEAN, late: BOOLEAN]

\* The constructor, followed by the Expires header that prepare_response pushes.
NewEntry(contents, modified, requested, now) ==
    [contents |-> contents, last_modified |-> modified, request_time |-> requested,
     response_time |-> now, expires_value |-> now + Lifetime, warned |-> FALSE,
     omit_body |-> FALSE, asif_uncompressed |-> FALSE, late |-> FALSE]

----------------------------------------------------------------------------
(* RFC 2616, 13.2.3 and 13.2.4.  date_value is response_time and age_value 0. *)

CorrectedReceivedAge(e, now) == now - e.response_time

ResponseDelay(e) == e.response_time - e.request_time

CorrectedInitialAge(e, now) == CorrectedReceivedAge(e, now) + ResponseDelay(e)

ResidentTime(e, now) == now - e.response_time

CurrentAge_OnArrival(e, now) == ResponseDelay(e)

CurrentAge(e, now) == CorrectedInitialAge(e, now) + ResidentTime(e, now)

\* use_max_age is never set for an entry.
FreshnessLifetime(e) == e.expires_value - e.response_time

Fresh(e, now) == FreshnessLifetime(e) > CurrentAge(e, now)

----------------------------------------------------------------------------
(* Output *)

\* *c << as_HEAD, *c << as_identity, or neither
Manipulated(e, how) ==
    CASE how = "head"     -> [e EXCEPT !.omit_body = TRUE]
      [] how = "identity" -> [e EXCEPT !.asif_uncompressed = TRUE]
      [] how = "gzip"     -> e

\* What Content-Length and Content-Encoding announce in hdrstream << *c.
Announced(e) ==
    CASE e.omit_body -> "head"
      [] ~ e.omit_body /\ e.asif_uncompressed -> "identity"
      [] OTHER -> "gzip"

AfterOutput_Sticky(e) == [e EXCEPT !.asif_uncompressed = FALSE]

\* The manipulators last for one output.
AfterOutput(e) == [e EXCEPT !.omit_body = FALSE, !.asif_uncompressed = FALSE]
=============================================================================
