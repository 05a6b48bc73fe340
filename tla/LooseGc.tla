------------------------------- MODULE LooseGc -------------------------------
(***************************************************************************)
(* gc reclaims loose objects of a session that its authority has too       *)
(* (gc_private_loose).  gc runs alone, under the lock on HOME, and has the *)
(* session's lease; git does not know either.  While gc works, the user's  *)
(* git writes and packs objects in the session, imports go on, and the     *)
(* owner of the authority moves branches, packs and prunes.                *)
(*                                                                         *)
(* One session.  The session reads its own objects and the authority's,    *)
(* which are its alternate.  A loose file is a number, its identity.       *)
(***************************************************************************)
EXTENDS Naturals, FiniteSets

CONSTANTS
  Objects,    \* names of objects
  Fanouts,    \* directories an object's name may put it in
  None,       \* no object
  MaxEnv,     \* bound: steps of git in the session and in the authority
  MaxFaults   \* bound: failed calls, kills and power cuts

ASSUME BoundAssumption == MaxEnv \in Nat /\ MaxFaults \in Nat
ASSUME NameAssumption  == IsFiniteSet(Objects) /\ Fanouts # {} /\ None \notin Objects

VARIABLES
  fanout,   \* [Objects -> Fanouts]
  priv,     \* [Objects -> Files]: the session's loose file, 0 for none
  packed,   \* SUBSET Objects: in a pack of the session
  auth,     \* [Objects -> Files]: the authority's loose file
  stored,   \* SUBSET Objects: in a pack of the authority
  torn,     \* files of the authority that are not the session's byte for byte
  kept,     \* SUBSET Objects: what the authority's refs reach
  own,      \* history: SUBSET Objects: what the session uses and had itself
  pruned,   \* history: SUBSET Objects: what the owner has pruned with no other copy left
  gc,       \* where gc is: its plan, the fanouts and objects still to be visited, the one in hand
  pending,  \* [Objects -> Files]: unlinked, but not yet on disk
  reported, \* files reported as removed, with their names
  files, env, faults

store  == <<fanout, priv, packed, auth, stored, torn, kept, own, pruned, files>>
gcVars == <<gc, pending, reported>>
vars   == <<store, gcVars, env, faults>>

Files == 0..(2 * Cardinality(Objects) + MaxEnv)

Running   == {"census", "lease", "authority", "private", "fanout", "object", "verify",
              "compared", "unlink", "sync", "empty", "rmdir"}
Outcomes  == {"new", "ok", "busy", "error", "killed"}
Locations == Running \cup Outcomes

In(f) == {x \in Objects : fanout[x] = f}
Loose == {x \in Objects : priv[x] # 0}
Readable(x) ==
  priv[x] # 0 \/ x \in packed \/ x \in stored \/ (auth[x] # 0 /\ auth[x] \notin torn)

(***************************************************************************)
(* What a classification says.                                             *)
(***************************************************************************)
\* verify_identical_owned_regular: both files read through.
Identical(x) == auth[x] # 0 /\ auth[x] \notin torn

\* classify_private_objects, and what it reads of the authority.
Classified ==
  [auth |-> auth, stored |-> stored, pack |-> packed # {}, file |-> priv,
   remove |-> {x \in Loose : Identical(x)}]

NoPlan == [auth |-> [x \in Objects |-> 0], stored |-> {}, pack |-> FALSE,
           file |-> [x \in Objects |-> 0], remove |-> {}]

Planned(x)   == priv[x] = gc.plan.file[x]
Twin(x)      == auth[x] = gc.plan.auth[x]
PlannedIn(f) == {x \in In(f) : gc.plan.file[x] # 0}

(***************************************************************************)
(* gc.                                                                     *)
(***************************************************************************)
Fault == faults < MaxFaults /\ faults' = faults + 1

At(pc, job) == [job EXCEPT !.pc = pc]
Ended(code) ==
  [pc |-> code, plan |-> NoPlan, fans |-> {}, todo |-> {}, at |-> None]

Quiet == UNCHANGED <<store, pending, reported, env>>

\* Nothing is changed by a comparison; if it fails gc ends with a recovery error.
Check(from, ok, next) ==
  /\ gc.pc = from
  /\ gc' = IF ok THEN next ELSE Ended("error")
  /\ Quiet /\ UNCHANGED faults

Start  == gc.pc \in Outcomes /\ gc' = At("census", gc) /\ Quiet /\ UNCHANGED faults

\* session_census.
Census == Check("census", TRUE, [gc EXCEPT !.pc = "lease", !.plan = Classified])

\* The lease may be taken or a publish unfinished; then the session is classified again.
Lease ==
  \/ Check("lease", Classified = gc.plan, At("authority", gc))
  \/ Check("lease", TRUE, Ended("busy"))
  \/ Check("lease", FALSE, gc)

Authority == Check("authority", auth = gc.plan.auth /\ stored = gc.plan.stored, At("private", gc))

\* private_objects_matches_plan: the fanouts and the pack directory.
Private ==
  Check("private",
        /\ packed # {} <=> gc.plan.pack
        /\ \A f \in Fanouts : (In(f) \cap Loose # {}) <=> (PlannedIn(f) # {}),
        [gc EXCEPT !.pc = "fanout", !.fans = {f \in Fanouts : PlannedIn(f) # {}}])

\* private_fanout_matches_plan.
NextFanout ==
  \/ gc.fans = {} /\ Check("fanout", TRUE, Ended("ok"))
  \/ \E f \in gc.fans :
       Check("fanout", In(f) \cap Loose = PlannedIn(f),
             [gc EXCEPT !.pc = "object", !.fans = @ \ {f}, !.todo = PlannedIn(f)])

\* gc_loose_fanout: an object that is not to be removed is only looked at.
NextObject ==
  \/ gc.todo = {} /\ Check("object", TRUE, At("empty", gc))
  \/ \E x \in gc.todo :
       Check("object", Planned(x),
             [gc EXCEPT !.pc = IF x \in gc.plan.remove THEN "verify" ELSE "object",
                        !.todo = @ \ {x}, !.at = x])

\* unlink_identical_owned_regular: compare, look at both names again, unlink the one.
Verify ==
  Check("verify", Planned(gc.at) /\ Twin(gc.at) /\ Identical(gc.at), At("compared", gc))

\* Mutant: the authority's file is not looked at again.
ComparedOnce == Check("compared", Planned(gc.at), At("unlink", gc))

Compared == Check("compared", Planned(gc.at) /\ Twin(gc.at), At("unlink", gc))

Unlink ==
  \/ Check("unlink", FALSE, gc) /\ priv[gc.at] = 0
  \/ /\ gc.pc = "unlink" /\ priv[gc.at] # 0
     /\ priv' = [priv EXCEPT ![gc.at] = 0]
     /\ pending' = [pending EXCEPT ![gc.at] = priv[gc.at]]
     /\ gc' = At("sync", gc)
     /\ UNCHANGED <<fanout, packed, auth, stored, torn, kept, own, pruned, files,
                    reported, env, faults>>

Report == reported' = reported \cup {<<gc.at, pending[gc.at]>>}

\* Mutant: the fanout is not synced before the removal is reported.
SyncNothing ==
  /\ gc.pc = "sync" /\ Report
  /\ gc' = At("object", gc)
  /\ UNCHANGED <<store, pending, env, faults>>

Sync ==
  /\ gc.pc = "sync"
  /\ \/ /\ pending' = [x \in Objects |-> IF fanout[x] = fanout[gc.at] THEN 0 ELSE pending[x]]
        /\ Report
        /\ gc' = At("object", gc) /\ UNCHANGED faults
     \/ Fault /\ gc' = Ended("error") /\ UNCHANGED <<pending, reported>>
  /\ UNCHANGED <<store, env>>

\* A fanout that is empty now is removed, if it still is when it is.
EmptyFanout ==
  LET empty == In(fanout[gc.at]) \cap Loose = {}
  IN  \/ Check("empty", TRUE, At(IF empty THEN "rmdir" ELSE "fanout", gc))
      \/ Check("rmdir", empty, At("fanout", gc))

Kill == gc.pc \in Running /\ Fault /\ gc' = Ended("killed") /\ Quiet

\* What was unlinked and not synced may be there again.
PowerCut ==
  /\ Fault
  /\ \E back \in SUBSET {x \in Objects : pending[x] # 0 /\ priv[x] = 0} :
       priv' = [x \in Objects |-> IF x \in back THEN pending[x] ELSE priv[x]]
  /\ pending' = [x \in Objects |-> 0]
  /\ gc' = IF gc.pc \in Running THEN Ended("killed") ELSE gc
  /\ UNCHANGED <<fanout, packed, auth, stored, torn, kept, own, pruned, files, reported, env>>

(***************************************************************************)
(* git in the session and in the authority.                                *)
(***************************************************************************)
Git == env < MaxEnv /\ env' = env + 1 /\ UNCHANGED <<gcVars, faults, fanout, torn>>

NewFile == files' = files + 1

\* git writes an object that it cannot read; one that it can read is as good.
Write(x) ==
  /\ Git /\ ~Readable(x)
  /\ NewFile /\ priv' = [priv EXCEPT ![x] = files'] /\ own' = own \cup {x}
  /\ UNCHANGED <<packed, auth, stored, kept, pruned>>

\* repack in the session.
PackPrivate(x) ==
  /\ Git /\ priv[x] # 0
  /\ packed' = packed \cup {x} /\ priv' = [priv EXCEPT ![x] = 0]
  /\ UNCHANGED <<auth, stored, kept, own, pruned, files>>

\* An import into the authority (import_publish_objects), unpacked or as a pack.
Import(x) ==
  /\ Git /\ Readable(x) /\ auth[x] = 0 /\ x \notin stored
  /\ \/ NewFile /\ auth' = [auth EXCEPT ![x] = files'] /\ UNCHANGED stored
     \/ stored' = stored \cup {x} /\ UNCHANGED <<auth, files>>
  /\ UNCHANGED <<priv, packed, kept, own, pruned>>

\* A ref comes to reach an object, or no longer does.
MoveRef(x) ==
  /\ Git /\ (auth[x] # 0 \/ x \in stored)
  /\ kept' = IF x \in kept THEN kept \ {x} ELSE kept \cup {x}
  /\ UNCHANGED <<priv, packed, auth, stored, own, pruned, files>>

\* repack in the authority: the pack first, then the loose file goes.
PackAuthority(x) ==
  /\ Git /\ auth[x] # 0
  /\ IF x \in stored THEN auth' = [auth EXCEPT ![x] = 0] /\ UNCHANGED stored
     ELSE x \in kept /\ auth[x] \notin torn /\ stored' = stored \cup {x} /\ UNCHANGED auth
  /\ UNCHANGED <<priv, packed, kept, own, pruned, files>>

\* Of an object gc is about to unlink no other copy is left: it has looked for the last time.
Borrowed(x) == (priv[x] = 0 /\ x \notin packed) \/ (gc.pc = "unlink" /\ gc.at = x)

\* prune in the authority.
Prune(x) ==
  /\ Git /\ x \notin kept /\ (auth[x] # 0 \/ x \in stored)
  /\ auth' = [auth EXCEPT ![x] = 0] /\ stored' = stored \ {x}
  /\ pruned' = IF Borrowed(x) THEN pruned \cup {x} ELSE pruned
  /\ UNCHANGED <<priv, packed, kept, own, files>>

(***************************************************************************)
(* Specification.                                                          *)
(***************************************************************************)
\* Objects the session has written or the authority has, one of them torn perhaps.
Init ==
  /\ fanout \in [Objects -> Fanouts]
  /\ \E mine, theirs \in SUBSET Objects :
       \E number \in [Objects -> 1..Cardinality(Objects)] :
         /\ \A x, y \in Objects : number[x] = number[y] => x = y
         /\ priv = [x \in Objects |-> IF x \in mine THEN number[x] ELSE 0]
         /\ auth = [x \in Objects |->
                      IF x \in theirs THEN number[x] + Cardinality(Objects) ELSE 0]
         /\ own = mine /\ kept \in SUBSET theirs
         /\ torn \in SUBSET {auth[x] : x \in mine \cap theirs}
  /\ packed = {} /\ stored = {} /\ pruned = {}
  /\ gc = Ended("new")
  /\ pending = [x \in Objects |-> 0] /\ reported = {}
  /\ files = 2 * Cardinality(Objects) /\ env = 0 /\ faults = 0

Next ==
  \/ Start \/ Census \/ Lease \/ Authority \/ Private \/ NextFanout \/ NextObject
  \/ Verify \/ Compared \/ Unlink \/ Sync \/ EmptyFanout \/ Kill \/ PowerCut
  \/ \E x \in Objects : \/ Write(x) \/ PackPrivate(x) \/ Import(x) \/ MoveRef(x)
                        \/ PackAuthority(x) \/ Prune(x)

Spec == Init /\ [][Next]_vars

(***************************************************************************)
(* Properties.                                                             *)
(***************************************************************************)
Plans == [auth : [Objects -> Files], stored : SUBSET Objects, pack : BOOLEAN,
          file : [Objects -> Files], remove : SUBSET Objects]
Jobs  == [pc : Locations, plan : Plans, fans : SUBSET Fanouts, todo : SUBSET Objects,
          at : Objects \cup {None}]

TypeOK ==
  /\ fanout \in [Objects -> Fanouts] /\ priv \in [Objects -> Files] /\ auth \in [Objects -> Files]
  /\ \A x, y \in Objects : priv[x] # 0 => /\ priv[x] # auth[y]
                                          /\ priv[x] = priv[y] => x = y
  /\ packed \subseteq Objects /\ stored \subseteq Objects /\ torn \subseteq Files
  /\ kept \subseteq Objects /\ own \subseteq Objects /\ pruned \subseteq Objects
  /\ gc \in Jobs
  /\ pending \in [Objects -> Files] /\ reported \subseteq Objects \X Files
  /\ files \in Files /\ env \in 0..MaxEnv /\ faults \in 0..MaxFaults

\* What the session had it can still read, however gc, the session's git and the owner's git
\* take turns and wherever gc stops, unless the owner prunes it when the session has no
\* copy left or gc has looked for the last time (unlink_identical_owned_regular compares
\* the bytes, and then looks at both names once more).
OwnKept == \A x \in own : Readable(x) \/ x \in pruned

\* A file that gc has reported as removed is gone and does not come back with the power
\* (gc_loose_fanout syncs before it reports).
ReportedGone == \A r \in reported : priv[r[1]] # r[2] /\ pending[r[1]] # r[2]

\* What the help says: gc reclaims only what is provably safe to reclaim.  Then what a
\* session had itself does not depend on what the authority's refs reach.
OwnSafe == \A x \in own : Readable(x)
=============================================================================
