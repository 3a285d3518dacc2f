----------------------------- MODULE PinResolve ------------------------------
(***************************************************************************)
(* PinStore::resolve: from a branch or tag to a commit.  A listing of the  *)
(* remote is cached for a poll interval; the advertised commit is used if  *)
(* the bare repository has it, else the ref is fetched by name and the tip *)
(* that arrives is adopted.  Meanwhile the remote moves, other work        *)
(* fetches into the same repository, calls to the remote fail, and a       *)
(* request may be dropped between any two awaits: what it had under way in *)
(* the repository still happens.                                           *)
(*                                                                         *)
(* The values of the ref on the remote are numbered in their order; NoRef  *)
(* is a ref that is not there, Unlisted a listing that was never made.     *)
(*                                                                         *)
(* One full ref, a branch or a tag, whose values are commits.  A bare name *)
(* is looked up as a branch and then as a tag, and a tip that is no commit *)
(* is not found either: both are outside this module.                      *)
(***************************************************************************)
EXTENDS Integers

CONSTANTS
  Resolvers,
  MaxTips     \* bound: changes of the ref on the remote

VARIABLES
  tip,       \* [seq, at]: how often the ref changed, and what it is now
  listing,   \* [at, fresh]: of the ref, and younger than poll_interval
  objects,   \* the commits in the bare repository
  localRef,  \* the ref in the bare repository
  serial,    \* who holds the resolve lock
  resolver,  \* [Resolvers -> [pc, at]]: at is what the listing said
  orphan,    \* the advertised commit of a fetch whose request was dropped
  given,     \* [kind, at]: the last answer, until the next call takes the lock
  seen,      \* history: the values of the ref while the resolve lock was held
  newest     \* history: the newest commit handed out

resolveVars == <<tip, listing, objects, localRef, serial, resolver, orphan, given, seen, newest>>

NoRef == 0
Unlisted == -1
Nobody == "nobody"

ASSUME ResolverAssumption == Nobody \notin Resolvers

NoAnswer == [kind |-> "none", at |-> NoRef]
NoCall == [pc |-> "idle", at |-> NoRef]

ResolveInit ==
  /\ tip = [seq |-> 1, at |-> 1]
  /\ listing = [at |-> Unlisted, fresh |-> FALSE]
  /\ objects = {} /\ localRef = NoRef
  /\ serial = Nobody
  /\ resolver = [r \in Resolvers |-> NoCall]
  /\ orphan = NoRef
  /\ given = NoAnswer
  /\ seen = {}
  /\ newest = NoRef

-----------------------------------------------------------------------------
(* Answers: the commit that was advertised or adopted; "missing", which is *)
(* RefNotFound; "unavailable".  The resolve lock is given back.            *)
Resolved(r, kind, at) ==
  /\ resolver' = [resolver EXCEPT ![r] = NoCall]
  /\ serial' = Nobody
  /\ given' = [kind |-> kind, at |-> at]
  /\ newest' = IF at > newest THEN at ELSE newest
  /\ seen' = {}

Continue(r, pc, at) ==
  /\ resolver' = [resolver EXCEPT ![r] = [pc |-> pc, at |-> at]]
  /\ UNCHANGED <<serial, given, newest, seen>>

Call(r) ==
  /\ resolver[r].pc = "idle"
  /\ resolver' = [resolver EXCEPT ![r].pc = "waiting"]
  /\ UNCHANGED <<tip, listing, objects, localRef, serial, orphan, given, seen, newest>>

TakeSerial(r) ==
  /\ resolver[r].pc = "waiting" /\ serial = Nobody /\ serial' = r
  /\ resolver' = [resolver EXCEPT ![r].pc = "listing"]
  /\ given' = NoAnswer /\ seen' = {tip.at}
  /\ UNCHANGED <<tip, listing, objects, localRef, orphan, newest>>

(* listing without force, from the cache.  A ref that is missing there is  *)
(* looked up once more, with force.                                        *)
UseListing(r) ==
  /\ resolver[r].pc = "listing" /\ listing.at # Unlisted /\ listing.fresh
  /\ Continue(r, IF listing.at = NoRef THEN "forced" ELSE "fetching", listing.at)
  /\ UNCHANGED <<tip, listing, objects, localRef, orphan>>

Asks(r) ==
  \/ resolver[r].pc = "forced"
  \/ resolver[r].pc = "listing" /\ ~(listing.at # Unlisted /\ listing.fresh)

(* ls_remote answers ... *)
LsRemote(r) ==
  /\ Asks(r) /\ Continue(r, "listed", tip.at)
  /\ UNCHANGED <<tip, listing, objects, localRef, orphan>>

(* What resolve makes of a listing that does not come from the cache. *)
Lookup(r, at, failed) ==
  \/ at # NoRef /\ Continue(r, "fetching", at)
  \/ at = NoRef /\ failed /\ Resolved(r, "unavailable", NoRef)
  \/ at = NoRef /\ ~failed /\ Resolved(r, "missing", NoRef)

(* ... the listing is stored, and decides ... *)
Listed(r) ==
  /\ resolver[r].pc = "listed"
  /\ listing' = [at |-> resolver[r].at, fresh |-> TRUE]
  /\ Lookup(r, resolver[r].at, FALSE)
  /\ UNCHANGED <<tip, objects, localRef, orphan>>

(* ... or it fails, and the last one decides, if there is one. *)
LsFails(r) ==
  /\ Asks(r)
  /\ IF listing.at = Unlisted THEN Resolved(r, "unavailable", NoRef)
                              ELSE Lookup(r, listing.at, TRUE)
  /\ UNCHANGED <<tip, listing, objects, localRef, orphan>>

-----------------------------------------------------------------------------
(* Mutant: an older local value of the ref survives. *)
KeepsLocalRef == localRef

(* The stale local ref is deleted before the fetch. *)
RefBeforeFetch == NoRef

(* commit_for_ref, when the advertised commit is not here: a fetch of the  *)
(* ref by name brings its tip, with or without the commits before it (a    *)
(* force push); a fetch of a ref that is gone brings nothing.              *)
FetchRef ==
  IF tip.at = NoRef THEN localRef' = RefBeforeFetch /\ UNCHANGED objects
  ELSE /\ localRef' = tip.at
       /\ objects' \in {objects \union {tip.at}, objects \union 1..tip.at}

(* commit_for_ref, under the repository's write lock. *)
CommitForRef(r) ==
  /\ resolver[r].pc = "fetching"
  /\ \/ /\ resolver[r].at \in objects /\ Resolved(r, "advertised", resolver[r].at)
        /\ UNCHANGED <<objects, localRef>>
     \/ /\ resolver[r].at \notin objects /\ FetchRef
        /\ IF localRef' = NoRef THEN Resolved(r, "missing", NoRef)
                                ELSE Continue(r, "adopting", localRef')
     \/ /\ resolver[r].at \notin objects /\ localRef' = RefBeforeFetch
        /\ Resolved(r, "unavailable", NoRef) /\ UNCHANGED objects
  /\ UNCHANGED <<tip, listing, orphan>>

(* Mutant: the adopted tip is not recorded. *)
ListingUnchanged(at) == listing

(* adopt_into_listing: the tip, with the age of the listing. *)
AdoptInto(at) == [listing EXCEPT !.at = at]

Adopt(r) ==
  /\ resolver[r].pc = "adopting"
  /\ listing' = AdoptInto(resolver[r].at)
  /\ Resolved(r, "adopted", resolver[r].at)
  /\ UNCHANGED <<tip, objects, localRef, orphan>>

(* A request is dropped; a fetch it had started goes on. *)
ResolverDropped(r) ==
  /\ resolver[r].pc # "idle"
  /\ resolver' = [resolver EXCEPT ![r] = NoCall]
  /\ serial' = IF serial = r THEN Nobody ELSE serial
  /\ orphan' = IF resolver[r].pc = "fetching" /\ orphan = NoRef THEN resolver[r].at ELSE orphan
  /\ seen' = IF serial = r THEN {} ELSE seen
  /\ UNCHANGED <<tip, listing, objects, localRef, given, newest>>

OrphanFetch ==
  /\ orphan # NoRef /\ orphan' = NoRef
  /\ IF orphan \in objects THEN UNCHANGED <<objects, localRef>> ELSE FetchRef
  /\ UNCHANGED <<tip, listing, serial, resolver, given, seen, newest>>

(* ensure_commit_local, for a commit that is not here (a checkout, or a    *)
(* ref that is a commit): it is fetched by its sha, or all heads and tags  *)
(* are; a ref that is gone from the remote stays.                          *)
EnsureCommitLocal ==
  /\ \E c \in 1..tip.seq :
       /\ c \notin objects
       /\ \/ objects' = objects \union {c} /\ UNCHANGED localRef
          \/ /\ tip.at # NoRef /\ localRef' = tip.at
             /\ objects' \in {objects \union {tip.at}, objects \union 1..tip.at}
  /\ UNCHANGED <<tip, listing, serial, resolver, orphan, given, seen, newest>>

-----------------------------------------------------------------------------
(* The remote: the ref is pushed, or deleted. *)
RemoteMoves ==
  /\ tip.seq < MaxTips
  /\ \E at \in {tip.seq + 1, NoRef} :
       /\ tip' = [seq |-> tip.seq + 1, at |-> at]
       /\ seen' = IF serial = Nobody THEN seen ELSE seen \union {at}
  /\ UNCHANGED <<listing, objects, localRef, serial, resolver, orphan, given, newest>>

PollIntervalPasses ==
  /\ listing.fresh /\ listing' = [listing EXCEPT !.fresh = FALSE]
  /\ UNCHANGED <<tip, objects, localRef, serial, resolver, orphan, given, seen, newest>>

ResolveNext ==
  \/ \E r \in Resolvers :
       \/ Call(r) \/ TakeSerial(r) \/ UseListing(r) \/ LsRemote(r) \/ Listed(r) \/ LsFails(r)
       \/ CommitForRef(r) \/ Adopt(r) \/ ResolverDropped(r)
  \/ OrphanFetch \/ EnsureCommitLocal \/ RemoteMoves \/ PollIntervalPasses

ResolveSpec == ResolveInit /\ [][ResolveNext]_resolveVars

-----------------------------------------------------------------------------
Answers(r) == serial = r /\ given = NoAnswer /\ given' # NoAnswer

(* Action property: of a ref that moves, no commit is handed out after a   *)
(* newer one was, whatever the callers, the listing and the fetches do     *)
(* (pins.rs, resolve_locks and adopt_into_listing).                        *)
HandedOutInOrder ==
  [][\A r \in Resolvers :
       Answers(r) /\ given'.kind \in {"advertised", "adopted"} => given'.at >= newest]_resolveVars

(* Action property: a ref is reported missing only if it was missing from  *)
(* the remote while the call had the lock, and a tip that is adopted was   *)
(* the ref's in that time: a cached listing, a failed one, or an older     *)
(* local ref decides neither (pins.rs, resolve and commit_for_ref).        *)
AnswersAreReal ==
  [][\A r \in Resolvers : Answers(r) =>
       /\ given'.kind = "missing" => NoRef \in seen
       /\ given'.kind = "adopted" => given'.at \in seen]_resolveVars
=============================================================================
