----------------------------- MODULE ServerList -----------------------------
(***************************************************************************)
(* The servers of MainActivity and RtmpServerAdapter: three fixed ones and *)
(* one whose address the user types.  The choice and the typed address are *)
(* kept in SharedPreferences, whose apply() changes the memory at once and *)
(* the file some time later; the process may be killed in between.         *)
(***************************************************************************)
EXTENDS Naturals, FiniteSets

CONSTANTS
  Rows,      (* the positions of the list                                  *)
  Custom,    (* the one with isEnableEdit                                  *)
  Addresses, (* what the user types                                        *)
  Empty      (* the empty address                                          *)

ASSUME ServerAssumption ==
  0 \in Rows /\ Custom \in Rows \ {0} /\ Empty \notin Addresses

VARIABLES
  selected,    (* the rows with isSelected                                 *)
  host,        (* the address of the custom row                            *)
  preferences, (* index and url in the memory of SharedPreferences         *)
  file,        (* the same on disk                                         *)
  used,        (* history: the addresses a live was started with           *)
  chosen       (* history: the rows ever selected by the user              *)

serverListVars == <<selected, host, preferences, file, used, chosen>>

ServerListInit ==
  /\ selected = {0} /\ host = Empty
  /\ preferences = [index |-> 0, url |-> Empty] /\ file = preferences
  /\ used = {} /\ chosen = {0}

(* The click on a row.                                                     *)
SelectServer(row) ==
  /\ row \notin selected
  /\ selected' = {row} /\ chosen' = chosen \cup {row}
  /\ preferences' = [preferences EXCEPT !.index = row]
  /\ UNCHANGED <<host, file, used>>

(* Mutant: each key stroke is stored.                                      *)
EditHostStoring(url) ==
  /\ host' = url /\ preferences' = [preferences EXCEPT !.url = url]
  /\ UNCHANGED <<selected, file, used, chosen>>

(* afterTextChanged.                                                       *)
EditHost(url) ==
  /\ host' = url
  /\ UNCHANGED <<selected, preferences, file, used, chosen>>

(* gotoCameraLiveActivity, and the click on btnScreenShotLive.  Only here  *)
(* is the typed address stored; an empty one starts nothing.               *)
GoLive ==
  /\ selected # {Custom} \/ host # Empty
  /\ \/ /\ Custom \in selected
        /\ preferences' = [preferences EXCEPT !.url = host] /\ used' = used \cup {host}
     \/ Custom \notin selected /\ UNCHANGED <<preferences, used>>
  /\ UNCHANGED <<selected, host, file, chosen>>

(* apply() reaches the disk.                                               *)
WriteFile ==
  /\ file' = preferences
  /\ UNCHANGED <<selected, host, preferences, used, chosen>>

(* A new MainActivity builds the list, in the same process or in a new one.*)
Restart ==
  /\ preferences' \in {preferences, file}
  /\ selected' = {preferences'.index} /\ host' = preferences'.url
  /\ UNCHANGED <<file, used, chosen>>

ServerListNext ==
  \/ \E row \in Rows : SelectServer(row)
  \/ \E url \in Addresses \cup {Empty} : EditHost(url)
  \/ GoLive \/ WriteFile \/ Restart

ServerListSpec == ServerListInit /\ [][ServerListNext]_serverListVars

RestartStep ==
  Restart => /\ Cardinality(selected') = 1 /\ selected' \subseteq chosen
             /\ host' \in used \cup {Empty}

(* Whenever the process dies, the list comes back with one server the user *)
(* once selected, and with an address that a live was started with or none:*)
(* never with an address that was typed and not used (MainActivity.kt      *)
(* 23-30, 48-50, 104-106; RtmpServerAdapter.kt 33-35, 66-78, 89-102).      *)
RestartOffersUsed == [][RestartStep]_serverListVars

=============================================================================
