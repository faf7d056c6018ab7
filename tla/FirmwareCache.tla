---------------------------- MODULE FirmwareCache ----------------------------
(***************************************************************************)
(* download_firmware.py: a run downloads an image to a temporary file,     *)
(* checks it, renames it to its name in the cache directory and makes      *)
(* latest.bin a link to it.  Several processes may run it, and each may be *)
(* killed anywhere.                                                        *)
(*                                                                         *)
(* An image is known by the run it was downloaded in.  The temporary file  *)
(* is private to its run and is not shown.                                 *)
(***************************************************************************)
EXTENDS Integers, FiniteSets

CONSTANTS
  Processes,
  Names,      \* filenames a run may be given
  MaxRuns     \* bound: runs in a behaviour

Latest == "latest.bin"
Entries == Names \cup {Latest}

VARIABLES
  files,   \* the directory: what is under each name that exists
  at,      \* where each process is in main()
  image,   \* the image of its run: run, name, whether it had a --sha256
           \* and whether what came over the network was right
  runs,    \* runs started
  links    \* the file system has symbolic links, which never changes

vars == <<files, at, image, runs, links>>

Images == [run : 1 .. MaxRuns, name : Names, sha : BOOLEAN, right : BOOLEAN]
NoImage == [run |-> 0, name |-> Latest, sha |-> FALSE, right |-> FALSE]

\* A regular file with an image, one a process is writing it to, and a link.
File(i) == [kind |-> "file", image |-> i]
Half(p, i) == [kind |-> "half", by |-> p, image |-> i]
Link(n) == [kind |-> "link", to |-> n]

With(f, n, e) == [m \in DOMAIN f \cup {n} |-> IF m = n THEN e ELSE f[m]]
Without(f, n) == [m \in DOMAIN f \ {n} |-> f[m]]

\* The name that open(n) reaches; a link to itself reaches none.
Target(n) ==
  IF n \in DOMAIN files /\ files[n].kind = "link" THEN files[n].to ELSE n
Reachable(n) ==
  /\ Target(n) \in DOMAIN files
  /\ files[Target(n)].kind # "link"

Goto(p, there) == at' = [at EXCEPT ![p] = there]

-----------------------------------------------------------------------------
Start(p) ==
  /\ at[p] \in {"idle", "done", "failed"}
  /\ runs < MaxRuns
  /\ runs' = runs + 1
  /\ \E name \in Names, sha \in BOOLEAN, right \in BOOLEAN :
       image' = [image EXCEPT ![p] = [run |-> runs', name |-> name,
                                      sha |-> sha, right |-> right]]
  /\ Goto(p, "download")
  /\ UNCHANGED <<files, links>>

\* Into the temporary file, which an exception removes; then the check.
Download(p) ==
  /\ at[p] = "download"
  /\ \/ Goto(p, "replace") /\ (image[p].sha => image[p].right)
     \/ Goto(p, "failed")
  /\ UNCHANGED <<files, image, runs, links>>

\* Not the code: the file is written under its name.
ReplaceInPlace(p) ==
  /\ at[p] = "replace"
  /\ LET name == image[p].name
         begun == name \in DOMAIN files /\ files[name] = Half(p, image[p])
     IN  /\ files' = With(files, name,
                          IF begun THEN File(image[p]) ELSE Half(p, image[p]))
         /\ IF begun THEN Goto(p, "check") ELSE UNCHANGED at
  /\ UNCHANGED <<image, runs, links>>

\* rename() replaces what is under the name, a link included.
Replace(p) ==
  /\ at[p] = "replace"
  /\ files' = With(files, image[p].name, File(image[p]))
  /\ Goto(p, "check")
  /\ UNCHANGED <<image, runs, links>>

\* latest_path.exists() or latest_path.is_symlink()
Check(p) ==
  /\ at[p] = "check"
  /\ Goto(p, IF Latest \in DOMAIN files THEN "unlink" ELSE "link")
  /\ UNCHANGED <<files, image, runs, links>>

\* If another process has removed it, the exception ends the run.
Unlink(p) ==
  /\ at[p] = "unlink"
  /\ files' = Without(files, Latest)
  /\ Goto(p, IF Latest \in DOMAIN files THEN "link" ELSE "failed")
  /\ UNCHANGED <<image, runs, links>>

Succeed(p) == Goto(p, "done")

\* If there is a latest.bin again, or there are no links, a copy is made.
Symlink(p) ==
  /\ at[p] = "link"
  /\ IF links /\ Latest \notin DOMAIN files
       THEN files' = With(files, Latest, Link(image[p].name)) /\ Succeed(p)
       ELSE Goto(p, "copy") /\ UNCHANGED files
  /\ UNCHANGED <<image, runs, links>>

\* copy2 opens the file latest.bin leads to, which empties it, and refuses
\* to copy a file to itself.
CopyBegin(p) ==
  /\ at[p] = "copy"
  /\ LET from == Target(image[p].name)
         to == Target(Latest)
     IN  IF /\ Reachable(image[p].name)
            /\ from # to
            /\ to \in DOMAIN files => Reachable(Latest)
           THEN /\ files' = With(files, to, Half(p, files[from].image))
                /\ Goto(p, "copying")
           ELSE Goto(p, "failed") /\ UNCHANGED files
  /\ UNCHANGED <<image, runs, links>>

Written(e, p) ==
  IF e.kind = "half" /\ e.by = p THEN File(e.image) ELSE e

\* What is written is lost if the file was replaced or removed meanwhile.
CopyEnd(p) ==
  /\ at[p] = "copying"
  /\ files' = [n \in DOMAIN files |-> Written(files[n], p)]
  /\ Succeed(p)
  /\ UNCHANGED <<image, runs, links>>

\* The process is killed.
Kill(p) ==
  /\ at[p] \notin {"idle", "done", "failed"}
  /\ Goto(p, "idle")
  /\ UNCHANGED <<files, image, runs, links>>

Init ==
  /\ files = [n \in {} |-> NoImage]
  /\ at = [p \in Processes |-> "idle"]
  /\ image = [p \in Processes |-> NoImage]
  /\ runs = 0
  /\ links \in BOOLEAN

Run(p) ==
  \/ Start(p) \/ Download(p) \/ Replace(p) \/ Check(p) \/ Unlink(p)
  \/ Symlink(p) \/ CopyBegin(p) \/ CopyEnd(p)

Next == \E p \in Processes : Run(p) \/ Kill(p)

Spec == Init /\ [][Next]_vars

-----------------------------------------------------------------------------
Contents ==
  [kind : {"file"}, image : Images]
    \cup [kind : {"half"}, by : Processes, image : Images]
    \cup [kind : {"link"}, to : Names]

TypeOK ==
  /\ DOMAIN files \subseteq Entries
  /\ \A n \in DOMAIN files : files[n] \in Contents
  /\ at \in [Processes -> {"idle", "download", "replace", "check", "unlink",
                           "link", "copy", "copying", "done", "failed"}]
  /\ image \in [Processes -> Images \cup {NoImage}]
  /\ runs \in 0 .. MaxRuns
  /\ links \in BOOLEAN

\* A whole image that passed its check if it had one.
Good(e) == e.kind = "file" /\ (e.image.sha => e.image.right)

(***************************************************************************)
(* What the comment on the cache promises: after a run that succeeds,      *)
(* latest.bin is the image it downloaded.                                  *)
(***************************************************************************)
SuccessIsLatest ==
  \A p \in Processes :
    at[p] = "done" /\ image[p].run = runs =>
      Reachable(Latest) /\ files[Target(Latest)] = File(image[p])
=============================================================================
