------------------------------ MODULE EntryQueue ------------------------------
(* What a JDBC batch promises: entries are queued and run in their order, up to *)
(* the first that fails.  A prepared statement queues the row of its parameters *)
(* (parameters), which goes on into the next entry, and a plain one SQL texts.  *)
(* It also says what the driver does and JDBC leaves open: execute() binds the  *)
(* first entry while there is one, and internalClose forgets entries.           *)
EXTENDS Sequences, Naturals

CONSTANTS Rows, SqlTexts, Blank

VARIABLES prepared, queue, parameters, ran

queueVars == <<prepared, queue, parameters, ran>>

Init ==
  /\ prepared \in BOOLEAN
  /\ queue = <<>> /\ parameters = Blank /\ ran = <<>>

SetParameters ==
  /\ prepared /\ parameters' \in Rows
  /\ UNCHANGED <<prepared, queue, ran>>

Add ==
  /\ \E entry \in (IF prepared THEN {parameters} ELSE SqlTexts) :
       queue' = Append(queue, entry)
  /\ UNCHANGED <<prepared, parameters, ran>>

\* A statement that is open when a plain one adds or runs is closed first.
Forget == queue' = <<>> /\ parameters' = Blank /\ UNCHANGED <<prepared, ran>>

Restart ==
  /\ ~prepared /\ parameters' = Blank
  /\ \E entry \in SqlTexts : queue' = <<entry>>
  /\ UNCHANGED <<prepared, ran>>

Run ==
  /\ \E n \in 0 .. Len(queue) : ran' = SubSeq(queue, 1, n)
  /\ queue' = <<>> /\ parameters' = Blank
  /\ UNCHANGED prepared

Bind ==
  /\ prepared /\ ran' = <<IF queue = <<>> THEN parameters ELSE Head(queue)>>
  /\ UNCHANGED <<prepared, queue, parameters>>

Next == SetParameters \/ Add \/ Forget \/ Restart \/ Run \/ Bind

Spec == Init /\ [][Next]_queueVars

=============================================================================
