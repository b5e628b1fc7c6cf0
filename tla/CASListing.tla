----------------------------- MODULE CASListing -----------------------------
(***************************************************************************)
(* FindUploaded of the CAS client (pkg/aliyun/cas_sdk.go): the listing of  *)
(* the uploaded certificates that match a keyword, one page per call, with *)
(* the shelf it reads changing under it: other operators, other CRs of the *)
(* account and the console upload and delete between two pages.  The probe *)
(* takes a certificate that is not listed for deleted, a claim by name for *)
(* never uploaded; so what matters is what a listing may miss.             *)
(***************************************************************************)
EXTENDS Naturals, FiniteSets, SequencesExt

CONSTANTS
    MaxCert,     \* bound: certificates are 1 .. MaxCert
    Anonymous,   \* certificates CAS lists without a certificate id
    PageSize,    \* casListPageSize
    MaxPages,    \* casListMaxPages
    ServerCap,   \* entries CAS puts on one page at most
    MaxChanges   \* bound: uploads and deletions by others

Cert == 1 .. MaxCert

ASSUME PageAssumption ==
    /\ {PageSize, MaxPages, ServerCap} \subseteq Nat \ {0}
    /\ {MaxCert, MaxChanges} \subseteq Nat
    /\ Anonymous \subseteq Cert

VARIABLES
    shelf,    \* what CAS would list for the keyword, in its order
    pc,       \* where the listing is
    page,     \* CurrentPage of the next request
    out,      \* certificates collected so far
    changes,  \* uploads and deletions so far
    stayed,   \* history: certificates on the shelf since the listing began
    taken,    \* history: deletions since the listing began
    odd       \* history: CAS has answered without a body or with a wrong page

histVars == <<stayed, taken, odd>>
vars == <<shelf, pc, page, out, changes, histVars>>

Ended == {"listed", "failed"}

TypeOK ==
    /\ shelf \in Seq(Cert) /\ IsInjective(shelf)
    /\ pc \in {"idle", "wait", "call"} \cup Ended
    /\ page \in 1 .. MaxPages
    /\ out \subseteq Cert \ Anonymous
    /\ changes \in 0 .. MaxChanges /\ taken \in 0 .. changes
    /\ stayed \subseteq Cert
    /\ odd \in BOOLEAN
-----------------------------------------------------------------------------
(* CAS *)

\* The entries of page p: ShowSize is a wish, the server may have a lower limit.
PageOf(p) ==
    LET width == IF ServerCap < PageSize THEN ServerCap ELSE PageSize
        last == IF p * width < Len(shelf) THEN p * width ELSE Len(shelf)
    IN  SubSeq(shelf, (p - 1) * width + 1, last)

\* Others upload a certificate; where CAS puts it in its order is not known.
UploadByOthers(c) ==
    /\ changes < MaxChanges
    /\ c \notin ToSet(shelf)
    /\ \E i \in 1 .. Len(shelf) + 1 : shelf' = InsertAt(shelf, i, c)
    /\ changes' = changes + 1
    /\ UNCHANGED <<pc, page, out, histVars>>

DeleteByOthers(i) ==
    /\ changes < MaxChanges
    /\ shelf' = RemoveAt(shelf, i)
    /\ changes' = changes + 1
    /\ stayed' = stayed \ {shelf[i]}
    /\ taken' = IF pc \in {"wait", "call"} THEN taken + 1 ELSE taken
    /\ UNCHANGED <<pc, page, out, odd>>
-----------------------------------------------------------------------------
(* FindUploaded *)

Begin ==
    /\ pc = "idle"
    /\ pc' = "wait" /\ page' = 1 /\ out' = {}
    /\ stayed' = ToSet(shelf) /\ taken' = 0 /\ odd' = FALSE
    /\ UNCHANGED <<shelf, changes>>

\* Limiters.Wait grants a call.
Granted ==
    /\ pc = "wait"
    /\ pc' = "call"
    /\ UNCHANGED <<shelf, page, out, changes, histVars>>

\* ... or the context ends first; or the call fails.  Nothing is returned.
Fails ==
    /\ pc \in {"wait", "call"}
    /\ pc' = "failed" /\ out' = {}
    /\ UNCHANGED <<shelf, page, changes, histVars>>

\* Mutants: a full page is taken for the last; the page limit is off by one.
FullPageIsLast(got, p) == got > PageSize /\ p < MaxPages
OnePageMore(got, p) == got >= PageSize /\ p <= MaxPages

\* A page shorter than the size asked for is the last one.
shouldFetchNextPage(got, p) == got >= PageSize /\ p < MaxPages

\* The body of the loop, for an answer with these entries.  A full page at
\* the page limit is an error (TooManyPages), not the end of the list.
Collect(entries) ==
    LET got == Len(entries)
        full == got >= PageSize /\ page >= MaxPages
    IN  /\ IF shouldFetchNextPage(got, page)
           THEN pc' = "wait" /\ page' = page + 1
           ELSE pc' = (IF full THEN "failed" ELSE "listed") /\ UNCHANGED page
        /\ out' = IF pc' = "failed" THEN {} ELSE out \cup (ToSet(entries) \ Anonymous)

\* Mutant: the loop without page++.
AnswerSamePage ==
    /\ pc = "call"
    /\ LET entries == PageOf(page) IN
       /\ pc' = IF shouldFetchNextPage(Len(entries), page) THEN "wait" ELSE "listed"
       /\ out' = out \cup ToSet(entries)
    /\ UNCHANGED <<shelf, page, changes, histVars>>

Answer ==
    /\ pc = "call"
    /\ Collect(PageOf(page))
    /\ UNCHANGED <<shelf, changes, histVars>>

\* CAS echoes the first page whatever CurrentPage is (the case the page limit
\* is there for).
EchoFirstPage ==
    /\ pc = "call" /\ page > 1
    /\ Collect(PageOf(1))
    /\ odd' = TRUE
    /\ UNCHANGED <<shelf, changes, stayed, taken>>

\* An answer without a body ends the loop, and what was collected is returned.
EmptyAnswer ==
    /\ pc = "call"
    /\ pc' = "listed"
    /\ odd' = TRUE
    /\ UNCHANGED <<shelf, page, out, changes, stayed, taken>>

\* The caller is done with the result.
Return ==
    /\ pc \in Ended
    /\ pc' = "idle" /\ page' = 1 /\ out' = {}
    /\ stayed' = {} /\ taken' = 0 /\ odd' = FALSE
    /\ UNCHANGED <<shelf, changes>>
-----------------------------------------------------------------------------
Init ==
    /\ \E n \in 0 .. MaxCert : shelf = [i \in 1 .. n |-> i]
    /\ pc = "idle" /\ page = 1 /\ out = {}
    /\ changes = 0
    /\ stayed = {} /\ taken = 0 /\ odd = FALSE

Listing == Granted \/ Fails \/ Answer \/ EchoFirstPage \/ EmptyAnswer

Next ==
    \/ Begin \/ Listing \/ Return
    \/ \E c \in Cert : UploadByOthers(c)
    \/ \E i \in DOMAIN shelf : DeleteByOthers(i)

Spec == Init /\ [][Next]_vars

\* The worker goes on with a listing it began: the limiter refills, and every
\* call has a deadline (withTimeout).
FairSpec == Spec /\ WF_vars(Listing)
-----------------------------------------------------------------------------
(* A listing that ends well misses at most one certificate for each one that
   was deleted while it ran: with page numbers a deletion moves what follows
   one place up, across a boundary already read.  So a certificate that stays
   is never missed when nobody deletes, however much is uploaded meanwhile,
   and a list too long for the page limit is an error and not a short list.
   The probe and the claims by name (probe.go:51, upload.go:284,
   deletion.go:272) rest on this. *)
MissesBounded ==
    pc = "listed" /\ ~odd =>
        Cardinality((stayed \ Anonymous) \ out) <= taken

(* A listing that began ends, whatever others upload and even when CAS echoes
   full pages for ever (casListMaxPages). *)
ListingEnds == pc = "wait" ~> pc \in Ended
=============================================================================
