----------------------------- MODULE OptionStore -----------------------------
(***************************************************************************)
(* Options: a table in the database, and in every process OptionMap plus the *)
(* variables that the values are parsed into.  An administrator's update is   *)
(* checked by the controller, saved, and applied in the process that serves   *)
(* it; the other processes read the whole table every SyncFrequency seconds   *)
(* and apply it row by row.  OptionMapRWMutex covers the application of one    *)
(* row, not the read of the table nor the order of two updates.               *)
(* A value is "bad" (it does not parse) or stands for a set of entries.       *)
(***************************************************************************)
EXTENDS Naturals, Sequences, FiniteSets

CONSTANTS Nodes, Admins,
          Rows,        \* the keys, in the order of the table
          MaxUpdates, MaxFaults

VARIABLES db,         \* key -> value of its row
          optionMap,  \* node -> key -> value
          setting,    \* node -> key -> the entries in force
          req,        \* administrator -> [pc, node, key, value]
          sync,       \* node -> [rows, todo]: the rows read and the keys still to be applied, in order
          updates, faults

opvars == <<db, optionMap, setting, req, sync, updates, faults>>

\* The table holds "one" at first; what administrators put in its place.
Values == {"two", "bad"}
Entries(v) == CASE v = "one" -> {"a"} [] v = "two" -> {"b"} [] v = "bad" -> {}

\* How the keys parse their value: a price table (RWMap) is emptied before it is parsed; a number
\* of a registered setting keeps its value when the new one does not parse; a map of a registered
\* setting is unmarshalled into the existing map, whose other entries stay.
tables == {"ModelRatio", "ImageRatio"}

\* json.Unmarshal and strconv as updateConfigFromMap uses them.
updateConfigFromMap(key, old, v) ==
    CASE v = "bad" -> old
      [] v # "bad" /\ key = "payment_setting.amount_discount" -> old \cup Entries(v)
      [] OTHER -> Entries(v)

LoadFromJsonString(v) == Entries(v)

Parsed(key, old, v) ==
    IF key \in tables THEN LoadFromJsonString(v) ELSE updateConfigFromMap(key, old, v)

\* updateOptionMap, in the process n; a table that does not parse is an error.
Applied(n, key, v) ==
    /\ optionMap' = [optionMap EXCEPT ![n][key] = v]
    /\ setting' = [setting EXCEPT ![n][key] = Parsed(key, @, v)]

Fails(key, v) == key \in tables /\ v = "bad"

Keys == {Rows[i] : i \in DOMAIN Rows}
Fault == faults < MaxFaults /\ faults' = faults + 1

Idle == [pc |-> "idle", node |-> CHOOSE n \in Nodes : TRUE, key |-> CHOOSE k \in Keys : TRUE, value |-> "one"]
Default == [k \in Keys |-> "one"]
NoRound == [rows |-> Default, todo |-> <<>>]

\* InitOptionMap has loaded the defaults and the table.
InitOptions ==
    /\ db = Default
    /\ optionMap = [n \in Nodes |-> Default]
    /\ setting = [n \in Nodes |-> [k \in Keys |-> Entries("one")]]
    /\ req = [a \in Admins |-> Idle]
    /\ sync = [n \in Nodes |-> NoRound]
    /\ updates = 0 /\ faults = 0

-----------------------------------------------------------------------------
\* The controller's check.  ImageRatio is checked by putting it in force.
UpdateOption(a, n, key, v) ==
    /\ req[a].pc = "idle" /\ updates < MaxUpdates
    /\ updates' = updates + 1
    /\ LET checked == key = "ImageRatio" IN
       /\ setting' = IF checked THEN [setting EXCEPT ![n][key] = LoadFromJsonString(v)] ELSE setting
       /\ req' = IF checked /\ v = "bad" THEN req
                 ELSE [req EXCEPT ![a] = [pc |-> "save", node |-> n, key |-> key, value |-> v]]
    /\ UNCHANGED <<db, optionMap, sync, faults>>

\* model.UpdateOption: FirstOrCreate and Save, whose errors are not looked at.
Save(a, ok) ==
    /\ req[a].pc = "save"
    /\ IF ok THEN UNCHANGED faults ELSE Fault
    /\ db' = IF ok THEN [db EXCEPT ![req[a].key] = req[a].value] ELSE db
    /\ req' = [req EXCEPT ![a].pc = "apply"]
    /\ UNCHANGED <<optionMap, setting, sync, updates>>

\* updateOptionMap and the answer.
Apply(a) ==
    /\ req[a].pc = "apply"
    /\ Applied(req[a].node, req[a].key, req[a].value)
    /\ req' = [req EXCEPT ![a] = Idle]
    /\ UNCHANGED <<db, sync, updates, faults>>

-----------------------------------------------------------------------------
\* SyncOptions: the table is read at once.  Without an answer of the database no row is
\* applied, which is no step.
SyncRead(n) ==
    /\ sync[n].todo = <<>>
    /\ sync' = [sync EXCEPT ![n] = [rows |-> db, todo |-> Rows]]
    /\ UNCHANGED <<db, optionMap, setting, req, updates, faults>>

\* The rest of a round after its first row.
Rest(round) == IF Len(round.todo) = 1 THEN NoRound ELSE [round EXCEPT !.todo = Tail(@)]

\* As SyncRow, but the first row that does not parse ends the round.
SyncRow_Stops(n) ==
    /\ sync[n].todo # <<>>
    /\ Applied(n, Head(sync[n].todo), sync[n].rows[Head(sync[n].todo)])
    /\ sync' = IF Fails(Head(sync[n].todo), sync[n].rows[Head(sync[n].todo)]) 
               THEN [sync EXCEPT ![n] = NoRound] ELSE [sync EXCEPT ![n] = Rest(@)]
    /\ UNCHANGED <<db, req, updates, faults>>

\* loadOptionsFromDatabase, one row: an error is logged and the loop goes on.
SyncRow(n) ==
    /\ sync[n].todo # <<>>
    /\ Applied(n, Head(sync[n].todo), sync[n].rows[Head(sync[n].todo)])
    /\ sync' = [sync EXCEPT ![n] = Rest(@)]
    /\ UNCHANGED <<db, req, updates, faults>>

\* A process starts again: InitOptionMap sets the defaults, then loads the table.
Restart(n) ==
    /\ Fault
    /\ optionMap' = [optionMap EXCEPT ![n] = db]
    /\ setting' = [setting EXCEPT ![n] = [k \in Keys |-> Parsed(k, Entries("one"), db[k])]]
    /\ sync' = [sync EXCEPT ![n] = NoRound]
    /\ req' = [a \in Admins |-> IF req[a].node = n THEN Idle ELSE req[a]]
    /\ UNCHANGED <<db, updates>>

NextOptions ==
    \/ \E a \in Admins, n \in Nodes, k \in Keys, v \in Values : UpdateOption(a, n, k, v)
    \/ \E a \in Admins, ok \in BOOLEAN : Save(a, ok)
    \/ \E a \in Admins : Apply(a)
    \/ \E n \in Nodes : SyncRead(n)
    \/ \E n \in Nodes : SyncRow(n)
    \/ \E n \in Nodes : Restart(n)

-----------------------------------------------------------------------------
(* The rows of the table are in force everywhere.                            *)
(* Once the administrators stop, every process ends up in that state,        *)
(* in whatever order updates, rounds of SyncOptions that                     *)
(* began before them, failed writes and restarts came in, and although one   *)
(* row may not parse.  Entries removed from a map of a registered setting    *)
(* may stay in force until the process starts again.                         *)
InForce ==
    \A n \in Nodes, k \in Keys :
        /\ optionMap[n][k] = db[k]
        /\ setting[n][k] = Parsed(k, setting[n][k], db[k])
=============================================================================
