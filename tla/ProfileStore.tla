---------------------------- MODULE ProfileStore ----------------------------
(***************************************************************************)
(* The profiles on disk: the directories working (what users save),        *)
(* profiles (the seeds that are shipped) and template, the requests the    *)
(* web server serves on them, and the seeding that precedes every start    *)
(* of an installed web server (web_server/src/routes/profiles.rs,          *)
(* web_server/src/main.rs, launcher/src/seed.rs).                          *)
(*                                                                         *)
(* Every request is cut where another one may run: between two tests for   *)
(* a file and between a test and the use of the file.  A file is written   *)
(* by emptying it and then writing the content over whatever is there; the *)
(* process may end in between, and a new version may be installed while it *)
(* is down.  A file is the content at its head and its length: it can be   *)
(* parsed when the one is as long as the other.                            *)
(***************************************************************************)
EXTENDS Naturals, Sequences, FiniteSetsExt

CONSTANTS
  Clients,
  Names,          \* profile names
  BadNames,       \* names that validate_profile_name refuses
  SavedNames,     \* names users save and delete
  Contents,       \* what users save
  Length,         \* the length of every content, shipped or saved
  Shipped,        \* Shipped[v][dir][name]: the data a version is shipped with
  Absent,         \* no file
  Nothing,        \* no content
  Unknown

ASSUME StoreAssumption ==
  /\ {"full", "template", "profile"} \subseteq Names /\ SavedNames \subseteq Names
  /\ \A v \in DOMAIN Shipped : DOMAIN Shipped[v] = {"working", "profiles", "template"}

VARIABLES
  deployment,   \* "installed": seeded before every start; "checkout": run in place
  program,      \* "down", "seeding", "up"
  version,      \* the installed version
  toCopy,       \* the files this seeding has not copied yet
  copying,      \* the file it has emptied, in a set
  mounted,      \* the working directory exists
  disk,         \* [directory -> [name -> file]]
  client,       \* what each client asks and is answered
  touched,      \* the names others changed since its request began (history)
  settled       \* what the last undisturbed change answered for (history)

launch == <<deployment, program, version, toCopy, copying, mounted>>
history == <<touched, settled>>
vars == <<launch, disk, client, history>>

Dirs == {"working", "profiles", "template"}
Empty == [head |-> Nothing, len |-> 0]
WholeFile(c) == [head |-> c, len |-> Length[c]]
Readable(f) == f.head # Nothing /\ f.len = Length[f.head]
\* A write starts at the head and does not shorten the file.
Over(f, c) == [head |-> c, len |-> Max({f.len, Length[c]})]
Exists(d, n) == disk[d][n] # Absent

Idle == [op |-> "none", at |-> "done", name |-> Nothing, content |-> Nothing,
         looked |-> 0, listed |-> {}, answer |-> Nothing]

-----------------------------------------------------------------------------
(* Seeding and starting *)

\* The top-level directory working is passed over.
MutCopiesWorking(v) == {f \in Dirs \X Names : Shipped[v][f[1]][f[2]] # Absent}
ToCopy(v) == {f \in (Dirs \ {"working"}) \X Names : Shipped[v][f[1]][f[2]] # Absent}

Launch ==
  /\ deployment = "installed" /\ program = "down"
  /\ program' = "seeding" /\ toCopy' = ToCopy(version) /\ copying' = {}
  /\ UNCHANGED <<deployment, version, mounted, disk, client, history>>

\* fs::copy empties the destination, whatever is there, and fills it.
MutCopiesOnlyNew(f) ==
  /\ program = "seeding" /\ copying = {} /\ f \in toCopy
  /\ toCopy' = toCopy \ {f}
  /\ IF Exists(f[1], f[2]) THEN UNCHANGED <<copying, disk>>
     ELSE copying' = {f} /\ disk' = [disk EXCEPT ![f[1]][f[2]] = Empty]
  /\ UNCHANGED <<deployment, program, version, mounted, client, history>>
CopyBegins(f) ==
  /\ program = "seeding" /\ copying = {} /\ f \in toCopy
  /\ copying' = {f} /\ toCopy' = toCopy \ {f}
  /\ disk' = [disk EXCEPT ![f[1]][f[2]] = Empty]
  /\ UNCHANGED <<deployment, program, version, mounted, client, history>>

CopyEnds ==
  /\ \E f \in copying : disk' = [disk EXCEPT ![f[1]][f[2]] = WholeFile(Shipped[version][f[1]][f[2]])]
  /\ copying' = {}
  /\ UNCHANGED <<deployment, program, version, toCopy, mounted, client, history>>

\* The web server reads the full profile and exits when it cannot.
Start ==
  /\ \/ /\ deployment = "installed" /\ program = "seeding" /\ toCopy = {} /\ copying = {}
        /\ mounted' = TRUE
     \/ /\ deployment = "checkout" /\ program = "down"
        /\ mounted' = mounted
  /\ program' = IF Exists("profiles", "full") /\ Readable(disk["profiles"]["full"]) THEN "up" ELSE "down"
  /\ UNCHANGED <<deployment, version, toCopy, copying, disk, client, history>>

\* At any moment, in the middle of a copy and of every request.
Stop ==
  /\ program # "down"
  /\ program' = "down" /\ toCopy' = {} /\ copying' = {}
  /\ client' = [c \in Clients |-> Idle]
  /\ touched' = [c \in Clients |-> {}]
  /\ UNCHANGED <<deployment, version, mounted, disk, settled>>

Upgrade ==
  /\ deployment = "installed" /\ program = "down" /\ version + 1 \in DOMAIN Shipped
  /\ version' = version + 1
  /\ UNCHANGED <<deployment, program, toCopy, copying, mounted, disk, client, history>>

-----------------------------------------------------------------------------
(* Requests *)

\* validate_profile_name comes first, where there is a name.
Ask(c, op, n, content, first) ==
  /\ program = "up" /\ client[c].at = "done"
  /\ client' = [client EXCEPT ![c] =
       IF n \in BadNames THEN [Idle EXCEPT !.op = op, !.name = n, !.answer = "bad_name"]
       ELSE [Idle EXCEPT !.op = op, !.name = n, !.content = content, !.at = first]]
  /\ touched' = [touched EXCEPT ![c] = {}]
  /\ UNCHANGED <<launch, disk, settled>>

At(c, op, at) == program = "up" /\ client[c].op = op /\ client[c].at = at
Goes(c, at) == client' = [client EXCEPT ![c].at = at]
Answers(c, answer) == client' = [client EXCEPT ![c].at = "done", ![c].answer = answer]
OnlyClient == UNCHANGED <<launch, disk, history>>

\* Client c has made working/n what it is to be; `last` says that it is done.
Changes(c, n, file, last) ==
  /\ disk' = [disk EXCEPT !["working"][n] = file]
  /\ touched' = [k \in Clients |-> IF k = c THEN touched[k] ELSE touched[k] \cup {n}]
  /\ settled' = [settled EXCEPT ![n] = IF last /\ n \notin touched[c] THEN file ELSE Unknown]
  /\ UNCHANGED launch

\* list_profiles
ListWorking(c) ==
  /\ At(c, "list", "working")
  /\ client' = [client EXCEPT ![c].at = "profiles",
       ![c].listed = {[name |-> n, source |-> "working"] : n \in {m \in Names : Exists("working", m)}}]
  /\ OnlyClient

Seen(listed) == {e.name : e \in listed}
MutNotShadowed(listed) == {n \in Names : Exists("profiles", n)}
NotShadowed(listed) == {n \in Names : Exists("profiles", n)} \ Seen(listed)

ListSeeds(c) ==
  /\ At(c, "list", "profiles")
  /\ client' = [client EXCEPT ![c].at = "template",
       ![c].listed = @ \cup {[name |-> n, source |-> "seed"] : n \in NotShadowed(@)}]
  /\ OnlyClient

ListTemplate(c) ==
  /\ At(c, "list", "template")
  /\ client' = [client EXCEPT ![c].at = "done",
       ![c].listed = @ \cup (IF Exists("template", "profile")
                             THEN {[name |-> "template", source |-> "seed"]} ELSE {})]
  /\ OnlyClient

\* get_profile: where the name is looked up, one test after the other.
MutLookUp(n) == IF n = "template" THEN <<"template">> ELSE <<"profiles", "working", "template">>
LookUp(n) == IF n = "template" THEN <<"template">> ELSE <<"working", "profiles", "template">>
\* The bundled template is profile.json.
FileName(n) == IF n = "template" THEN "profile" ELSE n

GetLooks(c) ==
  LET n == client[c].name
      k == client[c].looked + 1
  IN  /\ At(c, "get", "look")
      /\ IF Exists(LookUp(n)[k], FileName(n)) THEN client' = [client EXCEPT ![c].at = "read", ![c].looked = k]
         ELSE IF k < Len(LookUp(n)) THEN client' = [client EXCEPT ![c].looked = k]
         ELSE Answers(c, "not_found")
      /\ OnlyClient

\* What read_to_string and the parser make of a file.
Parsed(f) == IF f = Absent THEN "failed" ELSE IF Readable(f) THEN f.head ELSE "failed"

GetReads(c) ==
  /\ At(c, "get", "read")
  /\ LET n == client[c].name IN
     Answers(c, Parsed(disk[LookUp(n)[client[c].looked]][FileName(n)]))
  /\ OnlyClient

\* save_profile: always in working, whose absence is an error.
SaveOpens(c) ==
  /\ At(c, "save", "open")
  /\ IF mounted THEN Goes(c, "write") /\ Changes(c, client[c].name, Empty, FALSE)
     ELSE Answers(c, "failed") /\ OnlyClient

SaveWrites(c) ==
  /\ At(c, "save", "write")
  /\ LET n == client[c].name IN Changes(c, n, Over(disk["working"][n], client[c].content), TRUE)
  /\ Answers(c, "saved")

\* The file was deleted after it had been opened: nobody sees the write.
SaveWritesInVain(c) ==
  /\ At(c, "save", "write_deleted")
  /\ Answers(c, "saved")
  /\ OnlyClient

\* delete_profile
DeleteLooks(c) ==
  /\ At(c, "delete", "look")
  /\ Goes(c, IF Exists("working", client[c].name) THEN "remove" ELSE "look_seed")
  /\ OnlyClient

DeleteRefuses(c) ==
  /\ At(c, "delete", "look_seed")
  /\ Answers(c, IF Exists("profiles", client[c].name) THEN "read_only" ELSE "not_found")
  /\ OnlyClient

DeleteRemoves(c) ==
  /\ At(c, "delete", "remove")
  /\ LET n == client[c].name
         open(k) == client[k].name = n /\ client[k].at = "write"
     IN  IF Exists("working", n)
         THEN /\ Changes(c, n, Absent, TRUE)
              /\ client' = [k \in Clients |->
                   IF k = c THEN [client[c] EXCEPT !.at = "done", !.answer = "deleted"]
                   ELSE IF open(k) THEN [client[k] EXCEPT !.at = "write_deleted"] ELSE client[k]]
         ELSE Answers(c, "failed") /\ OnlyClient

-----------------------------------------------------------------------------

InPlace(v) == [d \in Dirs |-> [n \in Names |-> LET s == Shipped[v][d][n] IN
                                               IF d = "working" \/ s = Absent THEN Absent ELSE WholeFile(s)]]

Init ==
  /\ \/ /\ deployment = "installed" /\ mounted = FALSE
        /\ disk = [d \in Dirs |-> [n \in Names |-> Absent]]
     \/ /\ deployment = "checkout" /\ mounted \in BOOLEAN
        /\ disk = InPlace(1)
  /\ program = "down" /\ version = 1 /\ toCopy = {} /\ copying = {}
  /\ client = [c \in Clients |-> Idle]
  /\ touched = [c \in Clients |-> {}]
  /\ settled = [n \in Names |-> Absent]

Next ==
  \/ Launch \/ CopyEnds \/ Start \/ Stop \/ Upgrade
  \/ \E f \in Dirs \X Names : CopyBegins(f)
  \/ \E c \in Clients :
       \/ Ask(c, "list", Nothing, Nothing, "working")
       \/ \E n \in Names \cup BadNames : Ask(c, "get", n, Nothing, "look")
       \/ \E n \in SavedNames : \/ \E x \in Contents : Ask(c, "save", n, x, "open")
                                \/ Ask(c, "delete", n, Nothing, "look")
       \/ ListWorking(c) \/ ListSeeds(c) \/ ListTemplate(c)
       \/ GetLooks(c) \/ GetReads(c) \/ SaveOpens(c) \/ SaveWrites(c) \/ SaveWritesInVain(c)
       \/ DeleteLooks(c) \/ DeleteRefuses(c) \/ DeleteRemoves(c)

Spec == Init /\ [][Next]_vars

-----------------------------------------------------------------------------
(* Properties *)

Answered(c, op) == client[c].op = op /\ client[c].at = "done" /\ client[c].answer # "bad_name"

\* A save that was answered, and that no other change of the same profile ran
\* into, is on disk as a whole until the profile is changed again, whatever is
\* seeded, installed, stopped or saved by others; so is a deletion.
WorkIsKept == \A n \in Names : settled[n] # Unknown => disk["working"][n] = settled[n]

\* What the web server finds while it runs are the seeds of the version that is
\* installed, each of them whole: also after a seeding that was cut short, an
\* upgrade, and whatever users save or delete.
SeedsAreShipped ==
  program = "up" =>
    \A d \in Dirs \ {"working"}, n \in Names :
      Shipped[version][d][n] # Absent => disk[d][n] = WholeFile(Shipped[version][d][n])

\* A load that nobody's change of the profile runs into gives the user's copy,
\* or else the seed, or else nothing.
LoadsAreCurrent ==
  \A c \in Clients : LET n == client[c].name IN
    Answered(c, "get") /\ n \notin touched[c] =>
      client[c].answer = IF n # "template" /\ Exists("working", n) THEN Parsed(disk["working"][n])
                         ELSE IF n # "template" /\ Exists("profiles", n) THEN Parsed(disk["profiles"][n])
                         ELSE IF Exists("template", FileName(n)) THEN Parsed(disk["template"][FileName(n)])
                         ELSE "not_found"

\* A list agrees with what a load of the name would find: it has every profile
\* that was there all the time, once, and says whose it is.  The exception is
\* "template", which is in the list twice once a user has saved a profile of
\* that name, and of which a load finds the bundled one.
ListsMatchLoads ==
  \A c \in Clients : Answered(c, "list") =>
    \A n \in Names \ (touched[c] \cup {"template"}) :
      {e.source : e \in {e \in client[c].listed : e.name = n}} =
        IF Exists("working", n) THEN {"working"} ELSE IF Exists("profiles", n) THEN {"seed"} ELSE {}
=============================================================================
