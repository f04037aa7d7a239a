--------------------------- MODULE MCProfileStore ---------------------------
(* Two clients; two versions, of which the second has another full profile,  *)
(* one more seed and, by mistake, a working profile.                         *)
EXTENDS ProfileStore, TLC

CONSTANTS alice, bob

MCClients == {alice, bob}
MCSymmetry == Permutations(MCClients)
MCNames == {"full", "site", "template", "profile"}
MCBadNames == {"../full"}
MCSavedNames == {"full", "template"}
MCContents == {"short", "long"}
MCLength == [short |-> 1, long |-> 2, first |-> 1, second |-> 2]

\* In every version: the full profile, and the template.
Data(full, site, working) ==
  [working  |-> [n \in MCNames |-> IF n = "full" THEN working ELSE Absent],
   profiles |-> [n \in MCNames |-> IF n = "full" THEN full ELSE IF n = "site" THEN site ELSE Absent],
   template |-> [n \in MCNames |-> IF n = "profile" THEN "first" ELSE Absent]]
MCShipped == <<Data("first", Absent, Absent), Data("second", "second", "short")>>
=============================================================================
