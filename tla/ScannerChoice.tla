----------------------------- MODULE ScannerChoice -----------------------------
(***************************************************************************)
(* From the list of scanners to the source that a scan opens: enumeration  *)
(* by either backend, the merged list that the orchestrator keeps          *)
(* (scanner/mod.rs), the choice by name or id, and the second enumeration  *)
(* that opens the source (scanner/twain.rs, the sidecar's main.rs).  Other *)
(* clients ask for lists too, and scanners come and go in between.         *)
(***************************************************************************)
EXTENDS Naturals, SequencesExt

CONSTANTS
  Names,      \* product names
  Numbers,    \* TW_IDENTITY.Id as text: what a data source manager gives its first
              \* source, its second and so on, anew in each session
  MaxChanges  \* bound: how often what is installed changes

(* A number is no product name: resolve_scanner looks for either.          *)
ASSUME ChoiceAssumption ==
  /\ Numbers \in Seq(STRING)
  /\ Names \cap {Numbers[i] : i \in 1..Len(Numbers)} = {}
  /\ MaxChanges \in Nat

VARIABLES
  installed,  \* per backend, the product names in the order of its data source manager
  changes,    \* how often that has changed
  scanners,   \* the orchestrator's list, that of the last discovery
  shown,      \* the list that this client was sent last
  choice,     \* "idle", "resolved", "opened" or "failed"
  meant,      \* the entry of shown that the client means, and how it says so
  info,       \* what resolve_scanner has returned
  opened      \* the source opened: its backend and its name

choiceVars == <<installed, changes, scanners, shown, choice, meant, info, opened>>

Backends == {"native", "sidecar"}

Installations == BoundedSeq(Names, Len(Numbers))  \* bound: as many as there are numbers
Entry(b, i, name) == [id |-> Numbers[i], name |-> name, source |-> b]
NoEntry == [id |-> "", name |-> "", source |-> ""]

ChoiceInit ==
  /\ installed \in [Backends -> Installations]
  /\ changes = 0
  /\ scanners = <<>> /\ shown = <<>>
  /\ choice = "idle"
  /\ meant = [by |-> "", entry |-> NoEntry]
  /\ info = NoEntry
  /\ opened = NoEntry

(* list_sources, handle_list_scanners: a call that fails ends the list     *)
(* where it is, and a backend that cannot be reached has an empty one.     *)
Enumerations(b) ==
  {[i \in 1..n |-> Entry(b, i, installed[b][i])] : n \in 0..Len(installed[b])}

(* The first entry of a list with the text in one of the fields, NoEntry   *)
(* for none.                                                               *)
First(list, fields, text) ==
  LET at == {i \in DOMAIN list : \E f \in fields : list[i][f] = text}
  IN IF at = {} THEN NoEntry ELSE list[Min(at)]

(* The sidecar adds what is not in the list by name.                       *)
Merged(native, sidecar) ==
  LET upTo[n \in 0..Len(sidecar)] ==
        IF n = 0 THEN native
        ELSE IF \E i \in DOMAIN upTo[n - 1] : upTo[n - 1][i].name = sidecar[n].name
             THEN upTo[n - 1] ELSE Append(upTo[n - 1], sidecar[n])
  IN upTo[Len(sidecar)]

(* discover_scanners, for this client or for another.                      *)
Discover ==
  /\ choice = "idle"
  /\ \E n \in Enumerations("native"), s \in Enumerations("sidecar") : scanners' = Merged(n, s)
  /\ shown' \in {shown, scanners'}
  /\ UNCHANGED <<installed, changes, choice, meant, info, opened>>

(* A scanner is plugged in or removed, and the others are renumbered.      *)
InstallationChanges ==
  /\ choice \in {"idle", "resolved"}
  /\ changes < MaxChanges
  /\ changes' = changes + 1
  /\ \E b \in Backends : \E names \in Installations : installed' = [installed EXCEPT ![b] = names]
  /\ UNCHANGED <<scanners, shown, choice, meant, info, opened>>

(* resolve_scanner: without a scanner_id the name of the first, and then   *)
(* the first entry whose name or id is the text.                           *)
Resolved(by, e) ==
  LET text == IF by = "name" THEN e.name ELSE IF by = "id" THEN e.id
              ELSE IF scanners = <<>> THEN "" ELSE scanners[1].name
  IN First(scanners, {"name", "id"}, text)

(* A start_scan that says nothing, or that names a scanner shown before.   *)
Resolve(by, e) ==
  /\ choice = "idle"
  /\ meant' = [by |-> by, entry |-> e]
  /\ info' = Resolved(by, e)
  /\ choice' = IF info' = NoEntry THEN "failed" ELSE "resolved"
  /\ UNCHANGED <<installed, changes, scanners, shown, opened>>

(* Mutant: the source is opened by the number it had in the list.          *)
OpenByNumber ==
  /\ choice = "resolved"
  /\ \E now \in Enumerations(info.source) : opened' = First(now, {"id"}, info.id)
  /\ choice' = IF opened' = NoEntry THEN "failed" ELSE "opened"
  /\ UNCHANGED <<installed, changes, scanners, shown, meant, info>>

(* open_source, and the search of handle_scan: by name, in an enumeration  *)
(* of its own.                                                             *)
Open ==
  /\ choice = "resolved"
  /\ \E now \in Enumerations(info.source) : opened' = First(now, {"name"}, info.name)
  /\ choice' = IF opened' = NoEntry THEN "failed" ELSE "opened"
  /\ UNCHANGED <<installed, changes, scanners, shown, meant, info>>

ChoiceNext ==
  \/ Discover \/ InstallationChanges \/ Open
  \/ Resolve("nothing", NoEntry)
  \/ \E i \in DOMAIN shown, by \in {"name", "id"} : Resolve(by, shown[i])

ChoiceSpec == ChoiceInit /\ [][ChoiceNext]_choiceVars

(***************************************************************************)
(* Properties.                                                             *)
(***************************************************************************)

(* A scan asked for by name opens a scanner of that name or fails, however *)
(* old the client's list is, whatever other clients have listed and        *)
(* whatever came or went; by id it does while the client's list is the     *)
(* orchestrator's and no earlier entry has the same id, which the two      *)
(* backends give independently; without either it opens the first of the   *)
(* list; and the sidecar is used only for a name not listed natively.      *)
SourceAsMeant ==
  choice = "opened" =>
    /\ meant.by = "name" => opened.name = meant.entry.name
    /\ (/\ meant.by = "id" /\ scanners = shown
        /\ First(shown, {"id"}, meant.entry.id) = meant.entry)
          => opened.name = meant.entry.name
    /\ meant.by = "nothing" => opened.name = scanners[1].name
    /\ opened.source = "sidecar" =>
         \A i \in DOMAIN scanners : scanners[i].name = opened.name => scanners[i].source = "sidecar"
=============================================================================
