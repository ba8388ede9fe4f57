--------------------------- MODULE MatrixLifecycle ---------------------------
(***************************************************************************)
(* The role matrix and its lifecycle (roles/): two JSON files in the state *)
(* directory, model_role_matrix.json and matrix_lifecycle.json, the copy   *)
(* of the first that the router keeps in memory (RoleMatrix), and those    *)
(* who write them: the router after every refresh of the catalog, and the  *)
(* command "matrix update" in a process of its own.                        *)
(*                                                                         *)
(* Nothing locks the files.  Every read and every write of one is a step,  *)
(* and the other process acts in between; within the router nothing does,  *)
(* because there is no await from the refresh to the last reload.  A save  *)
(* of the router is a rename, so it happens at once or not at all; the     *)
(* command truncates the file and then writes it.                          *)
(*                                                                         *)
(* A role maps a model to the set of ranks it is listed with: empty when   *)
(* it is not listed, several when two entries were appended.  The models   *)
(* are those classify_model has ranks for.                                 *)
(***************************************************************************)
EXTENDS Integers, FiniteSets

CONSTANTS
    Models,
    Roles,
    Heuristic,     \* role -> model -> rank of classify_model
    Profile,       \* role -> model -> ranks of the last spectrography run: none or one
    MaxMisses,     \* max_misses of decay_deprecated_models
    MaxFaults,     \* bound: crashes and saves that fail
    MaxUpdates     \* bound: uses of the command

Ranks == [Roles -> [Models -> SUBSET Nat]]

ASSUME LifecycleAssumption ==
    /\ Heuristic \in [Roles -> [Models -> Nat]]
    /\ Profile \in Ranks
    /\ MaxMisses \in Nat \ {0}
    /\ {MaxFaults, MaxUpdates} \subseteq Nat

VARIABLES
    catalog,       \* provider_catalog.json: the models in it
    matrix,        \* model_role_matrix.json; what cannot be parsed reads as Nothing
    torn,          \* whether it cannot be parsed
    known,         \* matrix_lifecycle.json: the models with an entry
    misses,        \* and their consecutive_misses, 0 without an entry
    memory,        \* RoleMatrix._matrix
    changed,       \* whether the mtime of the file is later than RoleMatrix._mtime
    at,            \* where the router is
    next,          \* and where it goes on after a reload, or after seeding
    draft,         \* the ranks it has read and is working on
    fresh,         \* new_models of the CatalogDiff
    lost,          \* missing_models of the CatalogDiff
    command,       \* the other process: where it is, what it will write, and
                   \* whether the file it has opened is still the one in the directory
    faults, updates

files == <<catalog, matrix, torn, known, misses>>
ram == <<memory, changed>>
work == <<at, next, draft, fresh, lost>>
vars == <<files, ram, work, command, faults, updates>>

Nothing == [r \in Roles |-> [m \in Models |-> {}]]
Listed(ranks) == {m \in Models : \E r \in Roles : ranks[r][m] # {}}

TypeOK ==
    /\ catalog \subseteq Models
    /\ matrix \in Ranks
    /\ known \subseteq Models
    /\ misses \in [Models -> Nat]
    /\ memory \in Ranks
    /\ {torn, changed} \subseteq BOOLEAN
    /\ at \in {"down", "idle", "load", "stamp", "diff", "merge", "saveRanks",
               "saveLifecycle", "decay", "saveDecay"}
    /\ next \in {"idle", "diff", "decay"}
    /\ draft \in Ranks
    /\ fresh \subseteq Models
    /\ lost \subseteq Models
    /\ command \in [at : {"idle", "read", "open"}, ranks : Ranks, linked : BOOLEAN]
    /\ faults \in 0 .. MaxFaults
    /\ updates \in 0 .. MaxUpdates

Init ==
    /\ catalog \in SUBSET Models
    /\ matrix = Nothing
    /\ torn = FALSE
    /\ known = {}
    /\ misses = [m \in Models |-> 0]
    /\ memory = Nothing
    /\ changed = TRUE
    /\ at = "down"
    /\ next = "diff"
    /\ draft = Nothing
    /\ fresh = {}
    /\ lost = {}
    /\ command = [at |-> "idle", ranks |-> Nothing, linked |-> FALSE]
    /\ faults = 0
    /\ updates = 0

----------------------------------------------------------------------------
(* What is computed from the ranks.                                        *)

\* A dictionary made of a list that is sorted by rank keeps the last entry.
Lowest(ranks) == {x \in ranks : \A y \in ranks : x <= y}
View(ranks) == [r \in Roles |-> [m \in Models |-> Lowest(ranks[r][m])]]

\* The new models are appended to every role.
Seeded(ranks, new) ==
    [r \in Roles |-> [m \in Models |->
        ranks[r][m] \cup (IF m \in new THEN {Heuristic[r][m]} ELSE {})]]

\* int(rank * decay_rate) with the default rate of one half; below 10 the entry goes.
Decayed(ranks, deprecated) ==
    [r \in Roles |-> [m \in Models |->
        IF m \in deprecated
        THEN {x \div 2 : x \in {y \in ranks[r][m] : y \div 2 >= 10}}
        ELSE ranks[r][m]]]

Deprecated == {m \in Models : misses[m] >= MaxMisses}

\* Mutant: a model that misses again starts at one, as when it has no entry.
Counted_StartsAgain ==
    [m \in Models |-> IF m \in catalog THEN 0 ELSE IF m \in lost THEN 1 ELSE misses[m]]

\* What auto_seed_new_models makes of the counts it has loaded.
Counted ==
    [m \in Models |-> IF m \in catalog THEN 0
                      ELSE IF m \in lost THEN misses[m] + 1
                      ELSE misses[m]]

\* round() of tenths goes to the even neighbour from the middle.
Rounded(tenths) ==
    LET down == tenths \div 10
        rest == tenths % 10
    IN  IF rest > 5 \/ (rest = 5 /\ down % 2 = 1) THEN down + 1 ELSE down

Clamped(x) == IF x < 10 THEN 10 ELSE IF x > 99 THEN 99 ELSE x

\* blend_ranks with the default weight of 0.7 for the profile.
Blended(existing) ==
    [r \in Roles |-> [m \in Models |->
        IF Profile[r][m] = {} THEN existing[r][m]
        ELSE IF existing[r][m] = {} THEN Profile[r][m]
        ELSE {Clamped(Rounded(7 * e + 3 * x)) :
                 e \in Profile[r][m], x \in existing[r][m]}]]

----------------------------------------------------------------------------
(* The reload of RoleMatrix: the text is read first and the time of the    *)
(* file after it.  An unreadable file leaves the time as it was.           *)

Resume == at' = next /\ next' = "idle"

Load ==
    /\ at = "load"
    /\ IF torn
       THEN /\ memory' = Nothing
            /\ Resume
            /\ UNCHANGED draft
       ELSE /\ draft' = View(matrix)
            /\ at' = "stamp"
            /\ UNCHANGED <<memory, next>>
    /\ UNCHANGED <<files, changed, fresh, lost, command, faults, updates>>

Stamp ==
    /\ at = "stamp"
    /\ memory' = draft
    /\ changed' = FALSE
    /\ draft' = Nothing
    /\ Resume
    /\ UNCHANGED <<files, fresh, lost, command, faults, updates>>

\* select_models looks at the file before it ranks.
Select ==
    /\ at = "idle"
    /\ changed
    /\ at' = "load"
    /\ UNCHANGED <<files, ram, next, draft, fresh, lost, command, faults, updates>>

----------------------------------------------------------------------------
(* The router: construction, refreshes, seeding and decay.                 *)

\* __init__ loads the matrix and then seeds, from the catalog it finds.
Boot ==
    /\ at = "down"
    /\ at' = "load"
    /\ UNCHANGED <<files, ram, next, draft, fresh, lost, command, faults, updates>>

\* A refresh in the background stores the catalog and synchronises the matrix.
Refresh(found) ==
    /\ at = "idle"
    /\ catalog' = found
    /\ at' = "diff"
    /\ next' = "decay"
    /\ UNCHANGED <<matrix, torn, known, misses, ram, draft, fresh, lost, command,
                   faults, updates>>

\* The refresh an administrator asks for stores the catalog and no more.
AdminRefresh(found) ==
    /\ at = "idle"
    /\ found # catalog
    /\ catalog' = found
    /\ UNCHANGED <<matrix, torn, known, misses, ram, work, command, faults, updates>>

\* Mutant: new is what has no lifecycle entry.
Diff_AsksLifecycle ==
    /\ at = "diff"
    /\ fresh' = catalog \ known
    /\ lost' = Listed(matrix) \ catalog
    /\ at' = "merge"
    /\ UNCHANGED <<files, ram, next, draft, command, faults, updates>>

\* detect_catalog_changes reads the matrix ...
Diff ==
    /\ at = "diff"
    /\ fresh' = catalog \ Listed(matrix)
    /\ lost' = Listed(matrix) \ catalog
    /\ at' = "merge"
    /\ UNCHANGED <<files, ram, next, draft, command, faults, updates>>

\* ... and auto_seed_new_models reads it again.
Merge ==
    /\ at = "merge"
    /\ draft' = Seeded(matrix, fresh)
    /\ at' = "saveRanks"
    /\ UNCHANGED <<files, ram, next, fresh, lost, command, faults, updates>>

\* The rename of _save_matrix_raw.
WriteRanks ==
    /\ matrix' = draft
    /\ torn' = FALSE
    /\ changed' = TRUE
    /\ command' = [command EXCEPT !.linked = FALSE]
    /\ draft' = Nothing

SaveRanks ==
    /\ at = "saveRanks"
    /\ WriteRanks
    /\ at' = "saveLifecycle"
    /\ UNCHANGED <<catalog, known, misses, memory, next, fresh, lost, faults, updates>>

\* The constructor ends after this; a refresh goes on to the decay.  Either
\* reloads first if models were seeded.
SaveLifecycle ==
    /\ at = "saveLifecycle"
    /\ misses' = Counted
    /\ known' = known \cup fresh \cup lost
    /\ IF fresh = {} THEN Resume ELSE at' = "load" /\ UNCHANGED next
    /\ fresh' = {}
    /\ lost' = {}
    /\ UNCHANGED <<catalog, matrix, torn, ram, draft, command, faults, updates>>

\* decay_deprecated_models; lost keeps the models it will find in the matrix.
Decay ==
    /\ at = "decay"
    /\ IF Deprecated = {}
       THEN at' = "idle" /\ UNCHANGED <<draft, lost>>
       ELSE /\ draft' = Decayed(matrix, Deprecated)
            /\ lost' = Deprecated \cap Listed(matrix)
            /\ at' = "saveDecay"
    /\ UNCHANGED <<files, ram, next, fresh, command, faults, updates>>

SaveDecay ==
    /\ at = "saveDecay"
    /\ WriteRanks
    /\ at' = IF lost = {} THEN "idle" ELSE "load"
    /\ lost' = {}
    /\ UNCHANGED <<catalog, known, misses, memory, next, fresh, faults, updates>>

\* A save that raises ends the synchronisation; it is logged and forgotten.
SaveFails ==
    /\ at \in {"saveRanks", "saveLifecycle", "saveDecay"}
    /\ faults < MaxFaults
    /\ faults' = faults + 1
    /\ at' = "idle"
    /\ next' = "idle"
    /\ draft' = Nothing
    /\ fresh' = {}
    /\ lost' = {}
    /\ UNCHANGED <<files, ram, command, updates>>

Crash ==
    /\ at # "down"
    /\ faults < MaxFaults
    /\ faults' = faults + 1
    /\ at' = "down"
    /\ next' = "diff"
    /\ memory' = Nothing
    /\ changed' = TRUE
    /\ draft' = Nothing
    /\ fresh' = {}
    /\ lost' = {}
    /\ UNCHANGED <<files, command, updates>>

----------------------------------------------------------------------------
(* The command: update_matrix_from_spectrography.                          *)

UpdateReads ==
    /\ command.at = "idle"
    /\ updates < MaxUpdates
    /\ updates' = updates + 1
    /\ command' = [at |-> "read", ranks |-> Blended(View(matrix)), linked |-> FALSE]
    /\ UNCHANGED <<files, ram, work, faults>>

\* write_text opens the file, which empties it, ...
UpdateOpens ==
    /\ command.at = "read"
    /\ command' = [command EXCEPT !.at = "open", !.linked = TRUE]
    /\ matrix' = Nothing
    /\ torn' = TRUE
    /\ changed' = TRUE
    /\ UNCHANGED <<catalog, known, misses, memory, work, faults, updates>>

\* ... and writes to it, wherever it is by then.
UpdateWrites ==
    /\ command.at = "open"
    /\ IF command.linked
       THEN /\ matrix' = command.ranks
            /\ torn' = FALSE
            /\ changed' = TRUE
       ELSE UNCHANGED <<matrix, torn, changed>>
    /\ command' = [at |-> "idle", ranks |-> Nothing, linked |-> FALSE]
    /\ UNCHANGED <<catalog, known, misses, memory, work, faults, updates>>

UpdateDies ==
    /\ command.at # "idle"
    /\ faults < MaxFaults
    /\ faults' = faults + 1
    /\ command' = [at |-> "idle", ranks |-> Nothing, linked |-> FALSE]
    /\ UNCHANGED <<files, ram, work, updates>>

----------------------------------------------------------------------------
RefreshSome == \E found \in SUBSET Models : Refresh(found)
Synchronise == Diff \/ Merge \/ SaveRanks \/ SaveLifecycle \/ Decay \/ SaveDecay
Reload == Load \/ Stamp
Update == UpdateReads \/ UpdateOpens \/ UpdateWrites \/ UpdateDies

Next ==
    \/ Boot \/ Select \/ Reload \/ Synchronise
    \/ RefreshSome
    \/ \E found \in SUBSET Models : AdminRefresh(found)
    \/ SaveFails \/ Crash
    \/ Update

Spec == Init /\ [][Next]_vars

(***************************************************************************)
(* A stopped router is started again, and code without an await runs on.   *)
(* Requests keep coming; so do refreshes, whenever the catalog expires, and*)
(* the event loop gives them their turn between the requests.  The command *)
(* need not be used, nor end.                                              *)
(***************************************************************************)
Fairness ==
    /\ WF_vars(Boot)
    /\ WF_vars(Reload)
    /\ WF_vars(Synchronise)
    /\ SF_vars(Select)
    /\ SF_vars(RefreshSome)

FairSpec == Spec /\ Fairness

----------------------------------------------------------------------------
(* Properties.                                                             *)

\* The router is about to decay, or will be after a reload.
BeforeDecay == at \in {"decay", "saveDecay"} \/ (at \in {"load", "stamp"} /\ next = "decay")

\* When the router comes to the decay, no model of the catalog has a miss
\* against it, whatever failed before: a crash between the two saves, a save
\* that raised, a catalog stored without synchronising.
CataloguedIsNotMissed == BeforeDecay => \A m \in catalog : misses[m] = 0

\* A model that stays out of the catalog is in the end taken out of the matrix,
\* on disk and in memory, in every role, also if an update puts it back.
GoneIsDelisted ==
    \A m \in Models :
        <>[](m \notin catalog) => <>[](m \notin Listed(matrix) \cup Listed(memory))

\* A model that stays in the catalog is in the end listed for good, whatever
\* was decayed, overwritten by the command or lost with a torn file.
CataloguedIsListed ==
    \A m \in Models : <>[](m \in catalog) => <>[](m \in Listed(matrix))

=============================================================================
