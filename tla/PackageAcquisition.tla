------------------------- MODULE PackageAcquisition -------------------------
(***************************************************************************)
(* Acquisition of one selected native package                              *)
(* (scripts/lib/convex-wasm-native-package-acquisition.mjs) by the         *)
(* checkouts of one host: a package that is there is verified; otherwise   *)
(* it is downloaded to private scratch, verified and renamed to its place, *)
(* where another checkout may have come first.  A call is cancelled by its *)
(* caller or by a time limit, at any await; a process may die at any step. *)
(*                                                                         *)
(* A file is absent, good, bad (truncated, altered or of a wrong size) or  *)
(* foreign: a valid manifest of another package than the selected one.     *)
(***************************************************************************)
CONSTANTS
    Checkouts,  \* calls of acquireNativePackage, each in a process of its own
    None

VARIABLES
    pc,         \* where each call is
    aborted,    \* operationSignal
    scratch,    \* the files in the private directory, or None
    place,      \* the files at the place of the package, or None
    installer   \* who put them there (history)

vars == <<pc, aborted, scratch, place, installer>>

\* A littered call failed, and so did the removal of its scratch.
Ended == {"returned", "failed", "littered", "crashed"}
Awaits == {"look", "load", "mkdtemp", "manifest", "binary", "verify", "rename", "winner",
           "leave", "leaveFailed", "finally", "finallyFailed"}
Files == [manifest : {"absent", "good", "bad", "foreign"}, binary : {"absent", "good", "bad"}]

NoFiles == [manifest |-> "absent", binary |-> "absent"]

Init ==
    /\ pc = [c \in Checkouts |-> "new"]
    /\ aborted = [c \in Checkouts |-> FALSE]
    /\ scratch = [c \in Checkouts |-> None]
    /\ place = None /\ installer = None

Goto(c, next) == pc' = [pc EXCEPT ![c] = next]

\* implementation.load: the files are read and authenticated.
Loads(files) == files.manifest \in {"good", "foreign"} /\ files.binary = "good"

\* verifySelection, after the awaits of whatever read the manifest.
Selects(c, files) == ~aborted[c] /\ files.manifest = "good"

\* The signal is aborted by the caller or by the time limit.
Abort(c) ==
    /\ pc[c] \notin Ended /\ ~aborted[c]
    /\ aborted' = [aborted EXCEPT ![c] = TRUE]
    /\ UNCHANGED <<pc, scratch, place, installer>>

Crash(c) ==
    /\ pc[c] \in Awaits
    /\ Goto(c, "crashed")
    /\ UNCHANGED <<aborted, scratch, place, installer>>

Call(c) ==
    /\ pc[c] = "new"
    /\ Goto(c, IF aborted[c] THEN "failed" ELSE "look")
    /\ UNCHANGED <<aborted, scratch, place, installer>>

\* lstat of the place; a reference without download URLs ends here.
Look(c) ==
    /\ pc[c] = "look"
    /\ IF place # None THEN Goto(c, "load") ELSE \E next \in {"failed", "mkdtemp"} : Goto(c, next)
    /\ UNCHANGED <<aborted, scratch, place, installer>>

Load(c) ==
    /\ pc[c] = "load"
    /\ Goto(c, IF Loads(place) /\ Selects(c, place) THEN "returned" ELSE "failed")
    /\ UNCHANGED <<aborted, scratch, place, installer>>

Mkdtemp(c) ==
    /\ pc[c] = "mkdtemp"
    /\ scratch' = [scratch EXCEPT ![c] = NoFiles]
    /\ Goto(c, "manifest")
    /\ UNCHANGED <<aborted, place, installer>>

\* A file-system call fails before there is scratch.
ReadError(c) ==
    /\ pc[c] \in {"look", "load", "mkdtemp"}
    /\ Goto(c, "failed")
    /\ UNCHANGED <<aborted, scratch, place, installer>>

\* One fails in the try block: of the staging, or the reading of the winner's package.
StageError(c) ==
    /\ pc[c] \in {"manifest", "binary", "verify", "rename", "winner"}
    /\ Goto(c, "leaveFailed")
    /\ UNCHANGED <<aborted, scratch, place, installer>>

\* downloadFile of the manifest, which is then validated and compared with the selection.
DownloadManifest(c) ==
    /\ pc[c] = "manifest"
    /\ \E file \in {"good", "bad", "foreign"} :
          /\ scratch' = [scratch EXCEPT ![c].manifest = file]
          /\ Goto(c, IF file # "bad" /\ Selects(c, scratch'[c]) THEN "binary" ELSE "leaveFailed")
    /\ UNCHANGED <<aborted, place, installer>>

DownloadBinary(c) ==
    /\ pc[c] = "binary" /\ ~aborted[c]
    /\ \E file \in {"good", "bad"} : scratch' = [scratch EXCEPT ![c].binary = file]
    /\ Goto(c, "verify")
    /\ UNCHANGED <<aborted, place, installer>>

\* The server fails or sends more than the limit, or the aborted signal ends the transfer:
\* what has arrived stays in the scratch.
DownloadFails(c, file) ==
    scratch' \in {scratch, [scratch EXCEPT ![c][file] = "bad"]}

DownloadError(c) ==
    /\ \E file \in {"manifest", "binary"} : pc[c] = file /\ DownloadFails(c, file)
    /\ Goto(c, "leaveFailed")
    /\ UNCHANGED <<aborted, place, installer>>

\* The staged package is verified as a whole.
Verify(c) ==
    /\ pc[c] = "verify"
    /\ Goto(c, IF Loads(scratch[c]) /\ Selects(c, scratch[c]) THEN "rename" ELSE "leaveFailed")
    /\ UNCHANGED <<aborted, scratch, place, installer>>

\* The package is a directory of the scratch, which stays behind without it.
Rename(c) ==
    /\ pc[c] = "rename"
    /\ IF place = None
       THEN /\ place' = scratch[c] /\ installer' = c /\ Goto(c, "leave")
            /\ scratch' = [scratch EXCEPT ![c] = NoFiles]
       ELSE Goto(c, "winner") /\ UNCHANGED <<scratch, place, installer>>
    /\ UNCHANGED aborted

LoadWinner(c) ==
    /\ pc[c] = "winner"
    /\ Goto(c, IF Loads(place) /\ Selects(c, place) THEN "leave" ELSE "leaveFailed")
    /\ UNCHANGED <<aborted, scratch, place, installer>>

\* The removal fails: any of the files may be left, and its error is what the call ends with.
LeaveFails(c) ==
    /\ \E left \in Files :
          /\ \A file \in DOMAIN left : left[file] \in {scratch[c][file], "absent"}
          /\ scratch' = [scratch EXCEPT ![c] = left]
    /\ Goto(c, "littered")

\* The finally block: remove the scratch, then look at the signal once more.
\* Mutant: only a failed call removes its scratch.
LeaveBehind(c) ==
    /\ pc[c] \in {"leave", "leaveFailed"}
    /\ scratch' = IF pc[c] = "leave" THEN scratch ELSE [scratch EXCEPT ![c] = None]
    /\ Goto(c, IF pc[c] = "leave" THEN "finally" ELSE "finallyFailed")
    /\ UNCHANGED <<aborted, place, installer>>
Leave(c) ==
    /\ pc[c] \in {"leave", "leaveFailed"}
    /\ \/ /\ scratch' = [scratch EXCEPT ![c] = None]
          /\ Goto(c, IF pc[c] = "leave" THEN "finally" ELSE "finallyFailed")
       \/ LeaveFails(c)
    /\ UNCHANGED <<aborted, place, installer>>

\* Mutant: cancellation during the rename or the clean-up is not noticed.
FinallyDeaf(c) ==
    /\ pc[c] \in {"finally", "finallyFailed"}
    /\ Goto(c, IF pc[c] = "finally" THEN "returned" ELSE "failed")
    /\ UNCHANGED <<aborted, scratch, place, installer>>
Finally(c) ==
    /\ pc[c] \in {"finally", "finallyFailed"}
    /\ Goto(c, IF pc[c] = "finally" /\ ~aborted[c] THEN "returned" ELSE "failed")
    /\ UNCHANGED <<aborted, scratch, place, installer>>

-----------------------------------------------------------------------------
Next ==
    \E c \in Checkouts :
        \/ Abort(c) \/ Crash(c)
        \/ Call(c) \/ Look(c) \/ Load(c) \/ Mkdtemp(c)
        \/ DownloadManifest(c) \/ DownloadBinary(c) \/ Verify(c)
        \/ ReadError(c) \/ StageError(c) \/ DownloadError(c)
        \/ Rename(c) \/ LoadWinner(c) \/ Leave(c) \/ Finally(c)

Spec == Init /\ [][Next]_vars

-----------------------------------------------------------------------------
(* Properties.                                                             *)

\* No binary is fetched for a manifest that was not validated: its size is the limit.
TypeOK ==
    /\ pc \in [Checkouts -> {"new"} \cup Awaits \cup Ended]
    /\ aborted \in [Checkouts -> BOOLEAN]
    /\ scratch \in [Checkouts -> Files \cup {None}]
    /\ \A c \in Checkouts :
          pc[c] # "littered" /\ scratch[c] # None /\ scratch[c].binary # "absent" =>
             scratch[c].manifest = "good"
    /\ place \in Files \cup {None} /\ installer \in Checkouts \cup {None}

\* A call that was interrupted before it returned does not succeed, wherever the interrupt
\* caught it: while a package was read, renamed or cleaned up after.
InterruptedNeverReturns ==
    [][\A c \in Checkouts : aborted[c] /\ pc[c] # "returned" => pc'[c] # "returned"]_vars

\* Scratch belongs to a call at work, to a process that died, or to a call that failed because
\* it could not remove it: every other way out of the function removes it, and a call that
\* could not does not return the package, were it even installed.
NoScratchLeft ==
    \A c \in Checkouts : pc[c] \in {"returned", "failed"} => scratch[c] = None

\* The package that checkouts find is one complete and verified copy of the selected package,
\* whoever installed it, and it never changes; who is told of success has it.
Publication ==
    INSTANCE AtomicPublication WITH
        Publishers <- Checkouts,
        Adopting <- TRUE,
        content <- IF place = None THEN None
                   ELSE IF Loads(place) /\ place.manifest = "good"
                   THEN installer ELSE "damaged",
        answer <- [c \in Checkouts |->
            IF pc[c] = "returned" THEN "success"
            ELSE IF pc[c] \in {"failed", "littered"} THEN "failure" ELSE "none"]
ImplementsPublication == Publication!Spec

=============================================================================
