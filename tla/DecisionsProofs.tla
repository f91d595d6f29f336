--------------------------- MODULE DecisionsProofs ---------------------------
(***************************************************************************)
(* The properties of Decisions for every number of helpers, runs, pairs    *)
(* and contents and every bound on the tables.                             *)
(*                                                                         *)
(* The argument is the lock of the lead: one transaction is open at a time *)
(* (OneOpen), so what it read is still so when it writes (Held).  Reviews  *)
(* and invocations take no lock; they change nothing that an open          *)
(* transaction read.                                                       *)
(*                                                                         *)
(* The last part is about the verdict those helpers compute (Verdict).     *)
(***************************************************************************)
EXTENDS Decisions, Verdict, SequenceTheorems, FiniteSetTheorems,
        WellFoundedInduction, TLAPS

Truths == {TRUE, FALSE}
Wanted == {[truth |-> t, criteria |-> k, status |-> s, blocked |-> b] :
             t \in Nat, k \in Criteria, s \in {"draft", "final"}, b \in Truths}
Truth == [findings : SUBSET Nat, rows : Nat]
Evaluation == [request : Wanted, truth : Nat,
               status : {"draft", "final", "superseded"}]

Typed ==
  /\ recorded \in Seq(Pairs) /\ truths \in Seq(Truth)
  /\ evaluations \in Seq(Evaluation) /\ memos \in Seq(Memo)
  /\ bodies \subseteq Contents
  /\ args \in [Runs -> Arguments \cup {None}]
  /\ outcome \in [Runs -> {"none", "saved", "reused", "refused"}]
  /\ tx = [c \in Clients |-> tx[c]]

(* The rows refer to earlier ones, and a memo says what its run was given. *)
Linked ==
  /\ \A i \in DOMAIN truths : truths[i].findings \subseteq DOMAIN recorded
  /\ \A i \in DOMAIN evaluations : evaluations[i].truth \in DOMAIN truths
  /\ \A i \in DOMAIN memos :
       /\ args[memos[i].run] # None /\ memos[i].args = args[memos[i].run]
       /\ memos[i].args.evaluation \in DOMAIN evaluations
       /\ memos[i].args.truth = evaluations[memos[i].args.evaluation].truth
       /\ memos[i].args.content \in bodies

OneOpen == \A c, d \in Clients : c # d => tx[c] = Idle \/ tx[d] = Idle

(* What the open transaction read.                                         *)
Evaluating(t) ==
  t.op = "evaluate" =>
    /\ t.what \in Wanted
    /\ Evaluable(t.what.truth)
    /\ t.what.blocked = (LiveFindings # {})

Writing(t) ==
  t.op \in {"memo", "insert"} =>
    /\ t.req \in Runs /\ args[t.req] # None
    /\ SameContent(t.req) = {} /\ Lineage(args[t.req])
    /\ t.op = "insert" => args[t.req].content \in bodies

Shaped(t) ==
  /\ t.op \in {"none", "evaluate", "memo", "insert"}
  /\ t = [op |-> t.op, req |-> t.req, what |-> t.what]

Held == \A c \in Clients : Shaped(tx[c]) /\ Evaluating(tx[c]) /\ Writing(tx[c])

IInv == Typed /\ Linked /\ OneOpen /\ Held /\ ReplayIsSafe

-----------------------------------------------------------------------------
LEMMA IdleIsHeld ==
  /\ Shaped(Idle) /\ Evaluating(Idle) /\ Writing(Idle) /\ Idle.op = "none"
BY DEF Idle, Shaped, Evaluating, Writing

LEMMA InitIInv == Init => IInv
<1> SUFFICES ASSUME Init PROVE IInv
  OBVIOUS
<1>1. Typed /\ Linked
  BY DEF Init, Typed, Linked
<1>2. OneOpen /\ Held
  BY IdleIsHeld DEF Init, OneOpen, Held
<1>3. ReplayIsSafe
  BY DEF Init, ReplayIsSafe
<1> QED BY <1>1, <1>2, <1>3 DEF IInv

(* The others are idle while a transaction is open, and all of them when   *)
(* the lead is free for one that is idle itself.                           *)
LEMMA OthersIdle ==
  ASSUME IInv, NEW c \in Clients, tx[c].op # "none"
  PROVE  \A d \in Clients \ {c} : tx[d] = Idle
BY IdleIsHeld DEF IInv, OneOpen

LEMMA AllIdle ==
  ASSUME NEW c \in Clients, tx[c] = Idle, LeadFree(c)
  PROVE  \A d \in Clients : tx[d] = Idle
BY DEF LeadFree

(* A transaction that ends leaves every client idle.                       *)
LEMMA EndsIdle ==
  ASSUME IInv, NEW c \in Clients, tx[c] # Idle, Ends(c)
  PROVE  /\ \A d \in Clients : tx'[d] = Idle
         /\ tx' = [d \in Clients |-> tx'[d]]
<1>1. tx' = [tx EXCEPT ![c] = Idle] /\ tx = [d \in Clients |-> tx[d]]
  BY DEF Ends, IInv, Typed
<1>2. \A d \in Clients : tx'[d] = IF d = c THEN Idle ELSE tx[d]
  BY <1>1
<1> QED BY <1>1, <1>2 DEF IInv, OneOpen

(* When all are idle there is nothing to hold.                             *)
LEMMA NothingHeld ==
  ASSUME \A d \in Clients : tx'[d] = Idle
  PROVE  OneOpen' /\ Held'
<1>1. ASSUME NEW d \in Clients
      PROVE  Shaped(tx[d])' /\ Evaluating(tx[d])' /\ Writing(tx[d])'
  BY DEF Idle, Shaped, Evaluating, Writing
<1> QED BY <1>1 DEF OneOpen, Held

-----------------------------------------------------------------------------
(* contradiction-check, trajectory-check and compiled-truth append a row.  *)
LEMMA CheckStep ==
  ASSUME IInv, NEW c \in Clients, NEW p \in Pairs, CheckPair(c, p)
  PROVE  IInv'
<1>1. Typed' /\ DOMAIN recorded \subseteq DOMAIN recorded'
  <2>1. recorded' = Append(recorded, p) /\ recorded \in Seq(Pairs)
    BY DEF CheckPair, IInv, Typed
  <2>2. recorded' \in Seq(Pairs) /\ DOMAIN recorded \subseteq DOMAIN recorded'
    BY <2>1
  <2> QED BY <2>2 DEF CheckPair, IInv, Typed
<1>2. Linked'
  BY <1>1 DEF CheckPair, IInv, Linked
<1>3. OneOpen' /\ Held'
  BY AllIdle, NothingHeld DEF CheckPair
<1>4. ReplayIsSafe'
  BY DEF CheckPair, IInv, ReplayIsSafe
<1> QED BY <1>1, <1>2, <1>3, <1>4 DEF IInv

LEMMA CompileStep ==
  ASSUME IInv, NEW c \in Clients, Compile(c)
  PROVE  IInv'
<1>1. Packet \in Truth /\ LiveFindings \subseteq DOMAIN recorded
  <2>1. DOMAIN recorded \subseteq Nat /\ Len(recorded) \in Nat
    BY DEF IInv, Typed
  <2> QED BY <2>1 DEF Packet, LiveFindings, Truth
<1>2. /\ truths' \in Seq(Truth) /\ DOMAIN truths \subseteq DOMAIN truths'
      /\ \A i \in DOMAIN truths' : truths'[i] = IF i \in DOMAIN truths
                                                THEN truths[i] ELSE Packet
  <2>1. truths' = Append(truths, Packet) /\ truths \in Seq(Truth)
    BY DEF Compile, IInv, Typed
  <2> QED BY <1>1, <2>1
<1>3. Typed'
  BY <1>2 DEF Compile, IInv, Typed
<1>4. Linked'
  <2>1. Packet.findings = LiveFindings
    BY DEF Packet
  <2> QED BY <1>1, <1>2, <2>1 DEF Compile, IInv, Linked
<1>5. OneOpen' /\ Held'
  BY AllIdle, NothingHeld DEF Compile
<1>6. ReplayIsSafe'
  BY DEF Compile, IInv, ReplayIsSafe
<1> QED BY <1>3, <1>4, <1>5, <1>6 DEF IInv

-----------------------------------------------------------------------------
(* evaluation-save holds what it read of the snapshot and the findings.    *)
LEMMA BeginEvaluateStep ==
  ASSUME IInv, NEW c \in Clients, NEW t \in 1..MaxTruths, NEW k \in Criteria,
         NEW s \in {"draft", "final"}, BeginEvaluate(c, t, k, s)
  PROVE  IInv'
<1> DEFINE b == LiveFindings # {}
           w == [truth |-> t, criteria |-> k, status |-> s, blocked |-> b]
           u == [op |-> "evaluate", req |-> None, what |-> w]
<1>1. /\ tx' = [tx EXCEPT ![c] = u] /\ tx = [d \in Clients |-> tx[d]]
      /\ \A d \in Clients : tx[d] = Idle
      /\ Evaluable(t)
      /\ UNCHANGED <<rows, bodies, args, outcome>>
  BY AllIdle DEF BeginEvaluate, Begins, IInv, Typed
<1>2. b \in Truths
  BY DEF Truths
<1>3. b' = b /\ Evaluable(t)'
  BY <1>1 DEF LiveFindings, Evaluable, rows
<1> HIDE DEF b
<1>4. w \in Wanted /\ w.truth = t /\ w.blocked = b
  BY <1>2, DecisionsAssumption DEF Wanted
<1> HIDE DEF w
<1>5. \A d \in Clients : tx'[d] = IF d = c THEN u ELSE Idle
  BY <1>1
<1>6. Typed' /\ Linked' /\ ReplayIsSafe'
  BY <1>1, <1>5 DEF rows, IInv, Typed, Linked, ReplayIsSafe
<1>7. /\ tx'[c].op = "evaluate" /\ tx'[c].what = w
      /\ tx'[c] = [op |-> tx'[c].op, req |-> tx'[c].req, what |-> tx'[c].what]
  BY <1>5
<1>8. Evaluating(tx[c])'
  <2>1. tx'[c].what.blocked = b /\ tx'[c].what.truth = t
    BY <1>4, <1>7
  <2>2. tx'[c].what.blocked = (LiveFindings # {})'
    BY <1>3, <2>1 DEF b
  <2>3. Evaluable(tx[c].what.truth)'
    BY <1>3, <2>1 DEF Evaluable
  <2> QED BY <1>4, <1>7, <2>2, <2>3 DEF Evaluating
<1>9. Shaped(tx[c])' /\ Writing(tx[c])'
  BY <1>7 DEF Shaped, Writing
<1>10. ASSUME NEW d \in Clients, d # c
       PROVE  Shaped(tx[d])' /\ Evaluating(tx[d])' /\ Writing(tx[d])'
  BY <1>5, <1>10 DEF Idle, Shaped, Evaluating, Writing
<1>11. OneOpen'
  BY <1>5 DEF OneOpen
<1> QED BY <1>6, <1>8, <1>9, <1>10, <1>11 DEF IInv, Held

(* What a saved evaluation looks like, and that it leaves the others their *)
(* snapshots.                                                              *)
LEMMA SavedRows ==
  ASSUME IInv, NEW c \in Clients, CommitEvaluate(c), evaluations' # evaluations
  PROVE  LET e == tx[c].what
             new == [request |-> e, truth |-> e.truth, status |-> e.status]
         IN  /\ e \in Wanted /\ Evaluable(e.truth)
             /\ e.blocked = (LiveFindings # {})
             /\ evaluations' \in Seq(Evaluation)
             /\ Len(evaluations) \in Nat
             /\ Len(evaluations') = Len(evaluations) + 1
             /\ evaluations'[Len(evaluations')] = new
             /\ evaluations'[Len(evaluations')].truth = e.truth
             /\ \A i \in DOMAIN evaluations :
                  evaluations'[i].truth = evaluations[i].truth
<1> DEFINE e == tx[c].what
           new == [request |-> e, truth |-> e.truth, status |-> e.status]
           old == SupersedeFinals(e.status)
<1>1. e \in Wanted /\ Evaluable(e.truth) /\ e.blocked = (LiveFindings # {})
  BY DEF IInv, Held, Evaluating, CommitEvaluate
<1>2. e.truth \in Nat /\ e.status \in {"draft", "final"}
  BY <1>1 DEF Wanted
<1>3. new \in Evaluation
  BY <1>1, <1>2 DEF Evaluation
<1>4. evaluations \in Seq(Evaluation) /\ Len(evaluations) \in Nat
  BY DEF IInv, Typed
<1>5. \A i \in 1..Len(evaluations) :
        /\ old[i] \in Evaluation /\ old[i].truth = evaluations[i].truth
  <2> TAKE i \in 1..Len(evaluations)
  <2>1. evaluations[i] \in Evaluation /\ i \in DOMAIN evaluations
    BY <1>4
  <2>2. old[i] = evaluations[i]
          \/ old[i] = [evaluations[i] EXCEPT !.status = "superseded"]
    BY <2>1 DEF SupersedeFinals
  <2> HIDE DEF old
  <2> QED BY <2>1, <2>2 DEF Evaluation
<1>6. old = [i \in 1..Len(evaluations) |-> old[i]]
  BY <1>4 DEF SupersedeFinals
<1> HIDE DEF old
<1>7. old \in Seq(Evaluation) /\ Len(old) = Len(evaluations)
  <2>1. old \in [1..Len(evaluations) -> Evaluation]
    BY <1>5, <1>6
  <2> QED BY <1>4, <2>1, SeqDef
<1>8. evaluations' = Append(old, new)
  BY DEF CommitEvaluate, old
<1> HIDE DEF new
<1>9. /\ evaluations' \in Seq(Evaluation)
      /\ Len(evaluations') = Len(evaluations) + 1
      /\ evaluations'[Len(evaluations')] = new
      /\ \A i \in 1..Len(evaluations) : evaluations'[i] = old[i]
  BY <1>3, <1>4, <1>7, <1>8
<1>10. new.truth = e.truth
  BY DEF new
<1> QED BY <1>1, <1>4, <1>5, <1>9, <1>10 DEF new

LEMMA CommitEvaluateStep ==
  ASSUME IInv, NEW c \in Clients, CommitEvaluate(c)
  PROVE  IInv'
<1>1. /\ tx[c].op = "evaluate" /\ Ends(c)
      /\ UNCHANGED <<recorded, truths, memos, bodies, args, outcome>>
  BY DEF CommitEvaluate
<1>2. /\ \A d \in Clients : tx'[d] = Idle
      /\ tx' = [d \in Clients |-> tx'[d]]
  BY <1>1, IdleIsHeld, EndsIdle
<1>3. OneOpen' /\ Held'
  BY <1>2, NothingHeld
<1>4. ReplayIsSafe'
  BY <1>1 DEF IInv, ReplayIsSafe
<1>5. CASE evaluations' = evaluations
  BY <1>1, <1>2, <1>3, <1>4, <1>5 DEF IInv, Typed, Linked
<1>6. CASE evaluations' # evaluations
  <2> DEFINE e == tx[c].what
  <2>1. /\ evaluations' \in Seq(Evaluation) /\ Len(evaluations) \in Nat
        /\ Len(evaluations') = Len(evaluations) + 1
        /\ evaluations'[Len(evaluations')].truth = e.truth
        /\ \A i \in DOMAIN evaluations :
             evaluations'[i].truth = evaluations[i].truth
        /\ Evaluable(e.truth)
    BY <1>6, SavedRows
  <2>2. e.truth \in DOMAIN truths
    BY <2>1 DEF Evaluable, IInv, Typed
  <2> HIDE DEF e
  <2>3. DOMAIN evaluations' = DOMAIN evaluations \cup {Len(evaluations')}
    BY <2>1 DEF IInv, Typed
  <2>4. Linked'
    BY <1>1, <2>1, <2>2, <2>3 DEF IInv, Linked
  <2>5. Typed'
    BY <1>1, <1>2, <2>1 DEF IInv, Typed
  <2> QED BY <1>3, <1>4, <2>4, <2>5 DEF IInv
<1> QED BY <1>5, <1>6

-----------------------------------------------------------------------------
(* An invocation fixes arguments that no memo and no transaction has yet.  *)
LEMMA InvokeStep ==
  ASSUME IInv, NEW r \in Runs, NEW x \in Contents, Invoke(r, x)
  PROVE  IInv'
<1>1. PICK e \in ShownEvaluation :
        args' = [args EXCEPT ![r] = [truth |-> evaluations[e].truth,
                                     evaluation |-> e, content |-> x]]
  BY DEF Invoke
<1>2. args[r] = None /\ UNCHANGED <<rows, bodies, outcome, tx>> /\ Typed
  BY DEF Invoke, IInv
<1> DEFINE a == [truth |-> evaluations[e].truth, evaluation |-> e, content |-> x]
<1>3. a \in Arguments
  <2>1. e \in DOMAIN evaluations /\ evaluations \in Seq(Evaluation)
    BY <1>2 DEF ShownEvaluation, Finals, Typed
  <2>2. evaluations[e] \in Evaluation /\ e \in Nat
    BY <2>1
  <2> QED BY <2>2 DEF Arguments, Evaluation
<1> HIDE DEF a
<1>4. \A q \in Runs : args'[q] = IF q = r THEN a ELSE args[q]
  BY <1>1, <1>2 DEF Typed, a
<1>5. Typed'
  BY <1>1, <1>2, <1>3 DEF Typed, rows, a
<1>6. \A i \in DOMAIN memos : memos[i].run \in Runs
  <2>1. \A i \in DOMAIN memos : memos[i] \in Memo
    BY <1>2 DEF Typed
  <2> QED BY <2>1 DEF Memo
<1>7. \A q \in Runs : args[q] # None => args'[q] = args[q]
  BY <1>2, <1>4
<1>8. Linked'
  BY <1>2, <1>6, <1>7 DEF IInv, Linked, rows
<1>9. Held'
  <2>1. \A c \in Clients : Shaped(tx[c])' /\ Evaluating(tx[c])'
    BY <1>2 DEF IInv, Held, Shaped, Evaluating, Evaluable, LiveFindings, rows
  <2>2. \A c \in Clients : Writing(tx[c])'
    BY <1>2, <1>7 DEF IInv, Held, Writing, SameContent, Lineage, Finals, rows
  <2> QED BY <2>1, <2>2 DEF Held
<1>10. OneOpen' /\ ReplayIsSafe'
  BY <1>2 DEF IInv, OneOpen, ReplayIsSafe, rows
<1> QED BY <1>5, <1>8, <1>9, <1>10 DEF IInv

(* A replay writes its file again, a refusal writes nothing: neither is    *)
(* for a memo of the run that is a draft.                                  *)
LEMMA ReplayStep ==
  ASSUME IInv, NEW c \in Clients, NEW r \in Runs, Replay(c, r)
  PROVE  IInv'
<1>1. /\ UNCHANGED <<rows, args, tx>> /\ Typed
      /\ args[r] # None /\ bodies' = bodies \cup {args[r].content}
      /\ outcome' = [outcome EXCEPT ![r] = "reused"]
      /\ \A d \in Clients : tx'[d] = Idle
  BY AllIdle DEF Replay, IInv
<1>2. args[r].content \in Contents
  BY <1>1 DEF Typed, Arguments
<1>3. Typed' /\ Linked'
  BY <1>1, <1>2 DEF IInv, Typed, Linked, rows
<1>4. ReplayIsSafe'
  BY <1>1 DEF IInv, Typed, ReplayIsSafe, rows
<1> QED BY <1>1, <1>3, <1>4, NothingHeld DEF IInv

LEMMA RefuseStep ==
  ASSUME IInv, NEW c \in Clients, NEW r \in Runs, Refuse(c, r)
  PROVE  IInv'
<1>1. /\ UNCHANGED <<rows, bodies, args, tx>> /\ Typed
      /\ ReplayOf(r) = {}
      /\ outcome' = [outcome EXCEPT ![r] = "refused"]
      /\ \A d \in Clients : tx'[d] = Idle
  BY AllIdle DEF Refuse, IInv
<1>2. ASSUME NEW i \in DOMAIN memos, memos[i].run = r
      PROVE  memos[i].status # "draft"
  <2>1. memos[i] \in Memo /\ memos[i].args = args[r]
    BY <1>1, <1>2 DEF IInv, Typed, Linked
  <2>2. memos[i] = [run |-> r, args |-> args[r], status |-> memos[i].status]
    BY <1>2, <2>1 DEF Memo
  <2>3. i \in SameContent(r)
    BY <2>1 DEF SameContent
  <2> QED BY <1>1, <2>2, <2>3 DEF ReplayOf
<1>3. Typed' /\ Linked'
  BY <1>1 DEF IInv, Typed, Linked, rows
<1>4. ReplayIsSafe'
  BY <1>1, <1>2 DEF IInv, Typed, ReplayIsSafe, rows
<1> QED BY <1>1, <1>3, <1>4, NothingHeld DEF IInv

-----------------------------------------------------------------------------
(* A step that only moves one transaction on.                              *)
LEMMA OneMoves ==
  ASSUME IInv, NEW c \in Clients, NEW u, tx' = [tx EXCEPT ![c] = u],
         \A d \in Clients \ {c} : tx[d] = Idle
  PROVE  /\ OneOpen' /\ tx' = [d \in Clients |-> tx'[d]] /\ tx'[c] = u
         /\ \A d \in Clients \ {c} :
              Shaped(tx[d])' /\ Evaluating(tx[d])' /\ Writing(tx[d])'
<1>1. tx = [d \in Clients |-> tx[d]]
  BY DEF IInv, Typed
<1>2. \A d \in Clients : tx'[d] = IF d = c THEN u ELSE Idle
  BY <1>1
<1>3. OneOpen' /\ tx' = [d \in Clients |-> tx'[d]] /\ tx'[c] = u
  BY <1>1, <1>2 DEF OneOpen
<1>4. ASSUME NEW d \in Clients \ {c}
      PROVE  Shaped(tx[d])' /\ Evaluating(tx[d])' /\ Writing(tx[d])'
  BY <1>2 DEF Idle, Shaped, Evaluating, Writing
<1> QED BY <1>3, <1>4

LEMMA BeginMemoStep ==
  ASSUME IInv, NEW c \in Clients, NEW r \in Runs, BeginMemo(c, r)
  PROVE  IInv'
<1> DEFINE u == [op |-> "memo", req |-> r, what |-> None]
<1>1. /\ tx' = [tx EXCEPT ![c] = u] /\ Typed
      /\ \A d \in Clients : tx[d] = Idle
      /\ UNCHANGED <<rows, bodies, args, outcome>>
      /\ args[r] # None /\ SameContent(r) = {} /\ Lineage(args[r])
  BY AllIdle DEF BeginMemo, Begins, IInv
<1>2. /\ OneOpen' /\ tx' = [d \in Clients |-> tx'[d]] /\ tx'[c] = u
      /\ \A d \in Clients \ {c} :
           Shaped(tx[d])' /\ Evaluating(tx[d])' /\ Writing(tx[d])'
  BY <1>1, OneMoves
<1>3. Shaped(tx[c])' /\ Evaluating(tx[c])' /\ Writing(tx[c])'
  BY <1>1, <1>2 DEF Shaped, Evaluating, Writing, SameContent, Lineage, Finals, rows
<1>4. Typed' /\ Linked' /\ ReplayIsSafe'
  BY <1>1, <1>2 DEF IInv, Typed, Linked, ReplayIsSafe, rows
<1> QED BY <1>2, <1>3, <1>4 DEF IInv, Held

LEMMA PublishStep ==
  ASSUME IInv, NEW c \in Clients, PublishBody(c)
  PROVE  IInv'
<1> DEFINE r == tx[c].req
           u == [tx[c] EXCEPT !.op = "insert"]
<1>1. /\ tx[c].op = "memo" /\ tx' = [tx EXCEPT ![c].op = "insert"] /\ Typed
      /\ bodies' = bodies \cup {args[r].content}
      /\ UNCHANGED <<rows, args, outcome>>
      /\ tx[c] = [op |-> tx[c].op, req |-> tx[c].req, what |-> tx[c].what]
      /\ r \in Runs /\ args[r] # None /\ SameContent(r) = {} /\ Lineage(args[r])
      /\ tx = [d \in Clients |-> tx[d]]
  BY DEF PublishBody, IInv, Held, Shaped, Writing, Typed
<1>2. /\ u = [op |-> "insert", req |-> r, what |-> tx[c].what]
      /\ tx' = [tx EXCEPT ![c] = u]
  BY <1>1
<1>3. /\ OneOpen' /\ tx' = [d \in Clients |-> tx'[d]]
      /\ tx'[c] = [op |-> "insert", req |-> r, what |-> tx[c].what]
      /\ \A d \in Clients \ {c} :
           Shaped(tx[d])' /\ Evaluating(tx[d])' /\ Writing(tx[d])'
  <2>1. \A d \in Clients \ {c} : tx[d] = Idle
    BY <1>1, OthersIdle
  <2>2. \A d \in Clients : tx'[d] = IF d = c THEN u ELSE Idle
    BY <1>1, <1>2, <2>1
  <2>3. OneOpen' /\ tx' = [d \in Clients |-> tx'[d]]
    BY <1>1, <1>2, <2>2 DEF OneOpen
  <2>4. ASSUME NEW d \in Clients \ {c}
        PROVE  Shaped(tx[d])' /\ Evaluating(tx[d])' /\ Writing(tx[d])'
    BY <2>2 DEF Idle, Shaped, Evaluating, Writing
  <2> QED BY <1>2, <2>2, <2>3, <2>4
<1>4. args[r].content \in Contents
  BY <1>1 DEF Typed, Arguments
<1>5. Shaped(tx[c])' /\ Evaluating(tx[c])' /\ Writing(tx[c])'
  <2>1. /\ tx'[c].op = "insert" /\ tx'[c].req = r
        /\ tx'[c] = [op |-> tx'[c].op, req |-> tx'[c].req, what |-> tx'[c].what]
    BY <1>3
  <2>2. SameContent(r)' = {} /\ Lineage(args[r])'
    BY <1>1 DEF SameContent, Lineage, Finals, rows
  <2>3. args'[r] = args[r] /\ args[r].content \in bodies'
    BY <1>1
  <2> QED BY <1>1, <2>1, <2>2, <2>3
          DEF Shaped, Evaluating, Writing, SameContent, Lineage, Finals
<1>6. Typed' /\ Linked' /\ ReplayIsSafe'
  BY <1>1, <1>3, <1>4 DEF IInv, Typed, Linked, ReplayIsSafe, rows
<1> QED BY <1>3, <1>5, <1>6 DEF IInv, Held

(* The row that is inserted names a body, and rests on a final evaluation. *)
LEMMA InsertStep ==
  ASSUME IInv, NEW c \in Clients, InsertMemo(c)
  PROVE  /\ IInv'
         /\ Len(memos') = Len(memos) + 1 /\ Len(memos) \in Nat
         /\ Lineage(memos'[Len(memos')].args)
<1> DEFINE r == tx[c].req
           new == [run |-> r, args |-> args[r], status |-> "draft"]
<1>1. /\ tx[c].op = "insert" /\ Ends(c) /\ Typed
      /\ memos' = Append(memos, new)
      /\ outcome' = [outcome EXCEPT ![r] = "saved"]
      /\ UNCHANGED <<recorded, truths, evaluations, bodies, args>>
  BY DEF InsertMemo, IInv
<1>2. /\ r \in Runs /\ args[r] # None /\ Lineage(args[r])
      /\ args[r].content \in bodies
  BY <1>1 DEF IInv, Held, Writing
<1>3. args[r] \in Arguments
  BY <1>1, <1>2 DEF Typed
<1>4. new \in Memo /\ new.run = r /\ new.args = args[r] /\ new.status = "draft"
  BY <1>2, <1>3 DEF Memo
<1> HIDE DEF new
<1>5. /\ memos' \in Seq(Memo) /\ Len(memos) \in Nat
      /\ Len(memos') = Len(memos) + 1
      /\ memos'[Len(memos')] = new
      /\ \A i \in DOMAIN memos' : memos'[i] = new \/ (i \in DOMAIN memos /\ memos'[i] = memos[i])
  BY <1>1, <1>4 DEF Typed
<1>6. /\ \A d \in Clients : tx'[d] = Idle
      /\ tx' = [d \in Clients |-> tx'[d]]
  BY <1>1, IdleIsHeld, EndsIdle
<1>7. Typed'
  BY <1>1, <1>5, <1>6 DEF Typed
<1>8. args[r].evaluation \in DOMAIN evaluations
      /\ args[r].truth = evaluations[args[r].evaluation].truth
  BY <1>2 DEF Lineage, Finals
<1>9. Linked'
  BY <1>1, <1>2, <1>4, <1>5, <1>8 DEF IInv, Linked
<1>10. ReplayIsSafe'
  <2> SUFFICES ASSUME NEW q \in Runs, outcome'[q] = "refused",
                      NEW i \in DOMAIN memos', memos'[i].run = q
               PROVE  memos'[i].status # "draft"
    BY DEF ReplayIsSafe
  <2>1. q # r /\ outcome[q] = "refused"
    BY <1>1, <1>2 DEF Typed
  <2>2. i \in DOMAIN memos /\ memos'[i] = memos[i]
    BY <1>4, <1>5, <2>1
  <2> QED BY <2>1, <2>2 DEF IInv, ReplayIsSafe
<1> QED BY <1>2, <1>4, <1>5, <1>6, <1>7, <1>9, <1>10, NothingHeld DEF IInv

(* A review changes statuses, and makes no draft.                          *)
LEMMA ReviewStep ==
  ASSUME IInv, NEW i \in DOMAIN memos, NEW s \in {"approved", "invalid"},
         Review(i, s)
  PROVE  IInv' /\ Len(memos') = Len(memos)
<1>1. /\ Typed /\ memos \in Seq(Memo) /\ Len(memos) \in Nat
      /\ DOMAIN memos = 1..Len(memos)
      /\ UNCHANGED <<recorded, truths, evaluations, bodies, args, outcome, tx>>
  BY DEF Review, IInv, Typed
<1>2. memos' = [j \in 1..Len(memos) |-> memos'[j]]
  BY <1>1 DEF Review
<1>3. ASSUME NEW j \in 1..Len(memos)
      PROVE  /\ memos'[j] \in Memo
             /\ memos'[j].run = memos[j].run /\ memos'[j].args = memos[j].args
             /\ memos'[j].status = "draft" => memos[j].status = "draft"
  <2>1. memos[j] \in Memo /\ j \in DOMAIN memos
    BY <1>1
  <2>2. \/ memos'[j] = memos[j]
        \/ memos'[j] = [memos[j] EXCEPT !.status = s]
        \/ memos'[j] = [memos[j] EXCEPT !.status = "superseded"]
    BY <2>1 DEF Review
  <2> QED BY <2>1, <2>2 DEF Memo
<1>4. memos' \in Seq(Memo) /\ Len(memos') = Len(memos) /\ DOMAIN memos' = DOMAIN memos
  <2>1. memos' \in [1..Len(memos) -> Memo]
    BY <1>2, <1>3
  <2> QED BY <1>1, <2>1, SeqDef
<1>5. Typed'
  BY <1>1, <1>4 DEF Typed
<1>6. Linked'
  BY <1>1, <1>3, <1>4 DEF IInv, Linked
<1>7. ReplayIsSafe'
  BY <1>1, <1>3, <1>4 DEF IInv, ReplayIsSafe
<1>8. Held'
  <2>1. \A c \in Clients : Shaped(tx[c])' /\ Evaluating(tx[c])'
    BY <1>1 DEF IInv, Held, Shaped, Evaluating, Evaluable, LiveFindings
  <2>2. \A r \in Runs : SameContent(r) = {} => SameContent(r)' = {}
    BY <1>1, <1>3, <1>4 DEF SameContent
  <2>3. \A c \in Clients : Writing(tx[c])'
    <3> SUFFICES ASSUME NEW c \in Clients, tx[c].op \in {"memo", "insert"}
                 PROVE  Writing(tx[c])'
      BY <1>1 DEF Writing
    <3>1. /\ tx[c].req \in Runs /\ args[tx[c].req] # None
          /\ SameContent(tx[c].req) = {} /\ Lineage(args[tx[c].req])
          /\ tx[c].op = "insert" => args[tx[c].req].content \in bodies
      BY DEF IInv, Held, Writing
    <3>2. {j \in DOMAIN memos' : memos'[j].args.content = args[tx[c].req].content} = {}
      BY <1>1, <1>3, <1>4, <3>1 DEF SameContent
    <3> QED BY <1>1, <3>1, <3>2 DEF Writing, SameContent, Lineage, Finals
  <2> QED BY <2>1, <2>3 DEF Held
<1>9. OneOpen'
  BY <1>1 DEF IInv, OneOpen
<1> QED BY <1>4, <1>5, <1>6, <1>7, <1>8, <1>9 DEF IInv

LEMMA AbortStep ==
  ASSUME IInv, NEW c \in Clients, Abort(c)
  PROVE  IInv'
<1>1. /\ \A d \in Clients : tx'[d] = Idle
      /\ tx' = [d \in Clients |-> tx'[d]]
      /\ UNCHANGED <<rows, bodies, args, outcome>>
  BY EndsIdle DEF Abort
<1>2. Typed' /\ Linked' /\ ReplayIsSafe'
  BY <1>1 DEF IInv, Typed, Linked, ReplayIsSafe, rows
<1> QED BY <1>1, <1>2, NothingHeld DEF IInv

-----------------------------------------------------------------------------
LEMMA StepIInv == IInv /\ [Next]_vars => IInv'
<1> SUFFICES ASSUME IInv, [Next]_vars PROVE IInv'
  OBVIOUS
<1>1. CASE Next
  BY <1>1, CheckStep, CompileStep, BeginEvaluateStep, CommitEvaluateStep, ReplayStep,
     RefuseStep, BeginMemoStep, PublishStep, InsertStep, AbortStep, InvokeStep, ReviewStep
  DEF Next
<1>2. CASE UNCHANGED vars
  <2>1. Typed' /\ Linked' /\ OneOpen' /\ ReplayIsSafe'
    BY <1>2 DEF vars, rows, IInv, Typed, Linked, OneOpen, ReplayIsSafe
  <2>2. Held'
    BY <1>2 DEF vars, rows, IInv, Held, Shaped, Evaluating, Writing, Evaluable,
      LiveFindings, SameContent, Lineage, Finals
  <2> QED BY <2>1, <2>2 DEF IInv
<1> QED BY <1>1, <1>2

LEMMA Inductive == Spec => []IInv
BY InitIInv, StepIInv, PTL DEF Spec

(* Every memo that may be shown has its body (vcops.py:4884-4902).         *)
THEOREM ShownMemosHaveBodies == Spec => []ShowableHasBody
<1>1. IInv => ShowableHasBody
  <2> SUFFICES ASSUME IInv PROVE ShowableHasBody
    OBVIOUS
  <2>1. \A i \in DOMAIN memos : memos[i] \in Memo
    BY DEF IInv, Typed
  <2>2. TypeOK
    BY <2>1 DEF IInv, Typed, Linked, TypeOK
  <2> QED BY <2>2 DEF IInv, Linked, ShowableHasBody, Showable
<1> QED BY <1>1, Inductive, PTL

(* A saved run is refused only after a review, or for the words of another *)
(* run (vcops.py:4784).                                                    *)
THEOREM SavedRunsReplay == Spec => []ReplayIsSafe
<1>1. IInv => ReplayIsSafe
  BY DEF IInv
<1> QED BY <1>1, Inductive, PTL

(* Which steps append an evaluation, and which a memo.                     *)
LEMMA OnlyCommits ==
  ASSUME Next
  PROVE  \/ \E c \in Clients : CommitEvaluate(c)
         \/ evaluations' = evaluations
<1> USE DEF rows
<1>1. ASSUME NEW c \in Clients
      PROVE  /\ \A p \in Pairs : CheckPair(c, p) => evaluations' = evaluations
             /\ Compile(c) => evaluations' = evaluations
             /\ \A r \in Runs : Replay(c, r) \/ Refuse(c, r) \/ BeginMemo(c, r)
                                  => evaluations' = evaluations
             /\ PublishBody(c) \/ InsertMemo(c) \/ Abort(c)
                  => evaluations' = evaluations
  BY DEF CheckPair, Compile, Replay, Refuse, BeginMemo, PublishBody, InsertMemo, Abort
<1>2. \A c \in Clients : \A t, k, s : BeginEvaluate(c, t, k, s) => evaluations' = evaluations
  BY DEF BeginEvaluate
<1>3. /\ \A r \in Runs, x \in Contents : Invoke(r, x) => evaluations' = evaluations
      /\ \A i, s : Review(i, s) => evaluations' = evaluations
  BY DEF Invoke, Review
<1> QED BY <1>1, <1>2, <1>3 DEF Next

LEMMA OnlyInserts ==
  ASSUME IInv, Next
  PROVE  \/ \E c \in Clients : InsertMemo(c)
         \/ Len(memos') = Len(memos)
<1> USE DEF rows
<1>1. ASSUME NEW c \in Clients
      PROVE  /\ \A p \in Pairs : CheckPair(c, p) => memos' = memos
             /\ Compile(c) \/ CommitEvaluate(c) => memos' = memos
             /\ \A r \in Runs : Replay(c, r) \/ Refuse(c, r) \/ BeginMemo(c, r)
                                  => memos' = memos
             /\ PublishBody(c) \/ Abort(c) => memos' = memos
  BY DEF CheckPair, Compile, CommitEvaluate, Replay, Refuse, BeginMemo, PublishBody, Abort
<1>2. \A c \in Clients : \A t, k, s : BeginEvaluate(c, t, k, s) => memos' = memos
  BY DEF BeginEvaluate
<1>3. \A r \in Runs, x \in Contents : Invoke(r, x) => memos' = memos
  BY DEF Invoke
<1>4. \A i \in DOMAIN memos, s \in {"approved", "invalid"} :
        Review(i, s) => Len(memos') = Len(memos)
  BY ReviewStep
<1> QED BY <1>1, <1>2, <1>3, <1>4 DEF Next

(* A memo rests on what is the final evaluation of its snapshot when it is *)
(* inserted (vcops.py:4818-4836).                                          *)
THEOREM MemosRestOnFinals == Spec => MemoRestsOnFinal
<1>1. IInv /\ [Next]_vars =>
        [Len(memos') > Len(memos) =>
           Lineage(Last(memos').args) /\ Finals' = Finals]_vars
  <2> SUFFICES ASSUME IInv, Next, Len(memos') > Len(memos)
               PROVE  Lineage(Last(memos').args) /\ Finals' = Finals
    BY DEF vars
  <2>1. PICK c \in Clients : InsertMemo(c)
    BY OnlyInserts DEF IInv, Typed
  <2>2. Lineage(memos'[Len(memos')].args) /\ evaluations' = evaluations
    BY <2>1, InsertStep DEF InsertMemo
  <2> QED BY <2>2 DEF Last, Finals
<1> QED BY <1>1, Inductive, PTL DEF Spec, MemoRestsOnFinal

(* No finding that is live when an evaluation is saved is missing from it  *)
(* (vcops.py:4654-4690).                                                   *)
THEOREM FindingsAreSeen == Spec => NoFindingIsMissed
<1>1. IInv /\ [Next]_vars =>
        [Len(evaluations') > Len(evaluations) =>
           LET e == Last(evaluations')
           IN  /\ e.truth = Len(truths) /\ truths[e.truth].findings = LiveFindings
               /\ e.request.blocked = (LiveFindings # {})]_vars
  <2> SUFFICES ASSUME IInv, Next, Len(evaluations') > Len(evaluations)
               PROVE  LET e == Last(evaluations')
                      IN  /\ e.truth = Len(truths)
                          /\ truths[e.truth].findings = LiveFindings
                          /\ e.request.blocked = (LiveFindings # {})
    BY DEF vars
  <2>1. PICK c \in Clients : CommitEvaluate(c)
    BY OnlyCommits DEF IInv, Typed
  <2> DEFINE w == tx[c].what
  <2>2. evaluations' # evaluations
    BY DEF IInv, Typed
  <2>3. /\ Evaluable(w.truth) /\ w.blocked = (LiveFindings # {})
        /\ evaluations'[Len(evaluations')]
             = [request |-> w, truth |-> w.truth, status |-> w.status]
    BY <2>1, <2>2, SavedRows
  <2>4. Last(evaluations').truth = w.truth /\ Last(evaluations').request = w
    BY <2>3 DEF Last
  <2> QED BY <2>3, <2>4 DEF Evaluable
<1> QED BY <1>1, Inductive, PTL DEF Spec, NoFindingIsMissed

-----------------------------------------------------------------------------
(***************************************************************************)
(* What the helpers of Decisions compute (Verdict), for every set of facts *)
(* and evaluations and every bound.                                        *)
(***************************************************************************)
(* A period is an interval of days, and its ends are days of the fact.     *)
LEMMA PeriodBounds ==
  ASSUME NEW f \in Samples, WellFormed(f), PeriodOf(f) # None
  PROVE  /\ PeriodOf(f).from \in Nat \cap Days
         /\ PeriodOf(f).to \in Nat \cap Days
         /\ PeriodOf(f).from <= PeriodOf(f).to
<1> DEFINE from == IF f.period_start # None THEN f.period_start ELSE f.period_end
           to   == IF f.period_end # None THEN f.period_end ELSE f.period_start
<1>1. PeriodOf(f) = [from |-> from, to |-> to]
      /\ from # None /\ ~(to < from)
  BY DEF PeriodOf
<1>2. from \in Nat /\ to \in Nat /\ to # None
  BY <1>1 DEF WellFormed
<1>3. from \in Days /\ to \in Days
  BY <1>1, <1>2 DEF Days
<1> HIDE DEF from, to
<1> QED BY <1>1, <1>2, <1>3

LEMMA DaysAreNumbers ==
  ASSUME \A h \in Samples : WellFormed(h)
  PROVE  Days \subseteq Nat
  BY DEF Days, WellFormed

(* Two periods overlap exactly when they have a day in common.             *)
LEMMA OverlapIsCommonDay ==
  ASSUME NEW f \in Samples, NEW g \in Samples,
         \A h \in Samples : WellFormed(h), Dated(f, g)
  PROVE  Overlaps(f, g) <=>
           \E d \in Days :
             /\ PeriodOf(f).from <= d /\ d <= PeriodOf(f).to
             /\ PeriodOf(g).from <= d /\ d <= PeriodOf(g).to
<1> DEFINE a == PeriodOf(f).from
           b == PeriodOf(f).to
           x == PeriodOf(g).from
           y == PeriodOf(g).to
<1>1. /\ a \in Nat \cap Days /\ b \in Nat \cap Days /\ a <= b
      /\ x \in Nat \cap Days /\ y \in Nat \cap Days /\ x <= y
  BY PeriodBounds DEF Dated
<1>2. Days \subseteq Nat
  BY DaysAreNumbers
<1>3. Overlaps(f, g) <=> a <= y /\ x <= b
  BY DEF Overlaps
<1>4. ASSUME NEW d \in Days, a <= d, d <= b, x <= d, d <= y
      PROVE  a <= y /\ x <= b
  <2>1. d \in Nat
    BY <1>2
  <2> HIDE DEF a, b, x, y
  <2> QED BY <1>1, <1>4, <2>1
<1>5. ASSUME a <= y, x <= b
      PROVE  \E d \in Days : a <= d /\ d <= b /\ x <= d /\ d <= y
  <2>1. CASE a <= x
    BY <1>1, <1>5, <2>1
  <2>2. CASE x <= a
    BY <1>1, <1>5, <2>2
  <2> HIDE DEF a, b, x, y
  <2> QED BY <1>1, <2>1, <2>2
<1> QED BY <1>3, <1>4, <1>5

LEMMA ComparableNumbers ==
  ASSUME NEW f \in Samples, WellFormed(f),
         Comparable(f)[1] = "number"
  PROVE  Comparable(f)[2] \in Int
<1>1. CASE f.numeric # None
  BY <1>1 DEF Comparable, WellFormed
<1>2. CASE f.numeric = None
  <2>1. f.text # None /\ f.text.number # None
        /\ Comparable(f)[2] = ParsedValue(f.text)
    BY <1>2 DEF Comparable
  <2>2. f.text.number \in Int /\ f.text.scale \in Int
    BY <2>1 DEF WellFormed
  <2> QED BY <2>1, <2>2 DEF ParsedValue
<1> QED BY <1>1, <1>2

LEMMA WithinIsSymmetric ==
  ASSUME NEW l \in Int, NEW r \in Int
  PROVE  Within(l, r) <=> Within(r, l)
<1>1. Magnitude(l - r) = Magnitude(r - l)
  BY DEF Magnitude
<1>2. {Magnitude(l), Magnitude(r), 1}
        = {Magnitude(r), Magnitude(l), 1}
  OBVIOUS
<1> QED BY <1>1, <1>2 DEF Within

(* The classification of a pair does not depend on the order of the pair.  *)
LEMMA ClassifyIsSymmetric ==
  ASSUME NEW f \in Samples, NEW g \in Samples,
         WellFormed(f), WellFormed(g)
  PROVE  Classify(f, g) = Classify(g, f)
<1> DEFINE l == Comparable(f)
           r == Comparable(g)
<1>1. SameIdentity(f, g) <=> SameIdentity(g, f)
  BY DEF SameIdentity
<1>2. Dated(f, g) <=> Dated(g, f)
  BY DEF Dated
<1>3. Dated(f, g) =>
        (Overlaps(f, g) <=> Overlaps(g, f))
  BY DEF Overlaps
<1>4. l[1] = r[1] /\ l[1] = "number" =>
        (Within(l[2], r[2]) <=> Within(r[2], l[2]))
  BY ComparableNumbers, WithinIsSymmetric
<1> HIDE DEF l, r
<1>5. (None \notin {f.id["definition"], g.id["definition"]})
        <=> (None \notin {g.id["definition"], f.id["definition"]})
  OBVIOUS
<1>6. ("nothing" \notin {l[1], r[1]}) <=> ("nothing" \notin {r[1], l[1]})
  OBVIOUS
<1> QED BY <1>1, <1>2, <1>3, <1>4, <1>5, <1>6 DEF Classify, l, r

(* What stands on record of a pair is about two facts.                     *)
LEMMA ClassifyIsIrreflexive ==
  ASSUME NEW f \in Samples, WellFormed(f)
  PROVE  Classify(f, f) \notin {"contradiction", "trajectory"}
<1>1. Dated(f, f) => Overlaps(f, f)
  BY PeriodBounds DEF Dated, Overlaps
<1> QED BY <1>1 DEF Classify

(* What a contradiction and a trajectory are about.                        *)
LEMMA ClassifiedByPeriods ==
  ASSUME NEW f, NEW g
  PROVE  /\ Classify(f, g) = "contradiction" =>
              Dated(f, g) /\ Overlaps(f, g)
         /\ Classify(f, g) = "trajectory" =>
              Dated(f, g) /\ ~Overlaps(f, g)
  BY DEF Classify

(* A contradiction is about a day that both periods contain, a trajectory  *)
(* about periods without one, for all facts.                               *)
THEOREM PeriodsAlwaysDecide ==
  ASSUME VerdictAssumption
  PROVE  VerdictSpec => []PeriodsDecide
<1>1. PeriodsDecide
  <2> SUFFICES ASSUME NEW f \in Samples, NEW g \in Samples
               PROVE  LET Holds(d, h) ==
                            /\ PeriodOf(h) # None
                            /\ PeriodOf(h).from <= d
                            /\ d <= PeriodOf(h).to
                          common == \E d \in Days : Holds(d, f) /\ Holds(d, g)
                      IN  /\ Classify(f, g) = "contradiction" => common
                          /\ Classify(f, g) = "trajectory" => ~common
    BY DEF PeriodsDecide
  <2>1. \A h \in Samples : WellFormed(h)
    BY DEF VerdictAssumption
  <2>2. Dated(f, g) =>
          (Overlaps(f, g) <=>
             \E d \in Days :
               /\ PeriodOf(f).from <= d /\ d <= PeriodOf(f).to
               /\ PeriodOf(g).from <= d /\ d <= PeriodOf(g).to)
    BY <2>1, OverlapIsCommonDay
  <2> QED BY <2>2, ClassifiedByPeriods DEF Dated
<1> QED BY <1>1, PTL

LeadTyped ==
  /\ status \in [Facts -> Statuses]
  /\ findings \subseteq Finding
  /\ \A p \in trends : p \subseteq Facts /\ Cardinality(p) = 2
  /\ truth # None => Snapshot(truth)

(* A check of the snapshot that is complete stays so: the pairs on record  *)
(* are never removed, and its roles are frozen.                            *)
Checked ==
  truth # None => \A f, g \in CurrentIn(truth) :
    /\ "contradiction_check_complete" \in truth.checks =>
         (Classify(f, g) = "contradiction"
           => \E x \in findings : x.pair = {f, g})
    /\ "trajectory_check_complete" \in truth.checks =>
         (Classify(f, g) = "trajectory" => {f, g} \in trends)

LeadInv == LeadTyped /\ Checked

LEMMA LeadFacts ==
  ASSUME VerdictAssumption
  PROVE  /\ Facts \subseteq Samples /\ \A f \in Samples : WellFormed(f)
         /\ "high" \in Severities
  BY DEF VerdictAssumption

LEMMA PairHasTwo ==
  ASSUME NEW a, NEW b, a # b
  PROVE  Cardinality({a, b}) = 2
<1>1. IsFiniteSet({a}) /\ Cardinality({a}) = 1
  BY FS_Singleton
<1>2. Cardinality({a} \cup {b}) = 2
  BY <1>1, FS_AddElement
<1>3. {a} \cup {b} = {a, b}
  OBVIOUS
<1> QED BY <1>2, <1>3

LEMMA FactStep ==
  ASSUME LeadInv, NEW f \in Facts,
         \/ \E s \in Statuses : Record(f, s)
         \/ Promote(f) \/ Retract(f)
  PROVE  LeadInv'
<1>1. UNCHANGED <<findings, trends, truth>>
  BY DEF Record, Promote, Retract
<1>2. status' \in [Facts -> Statuses]
  BY DEF LeadInv, LeadTyped, Statuses, Record,
         Promote, Retract
<1> QED BY <1>1, <1>2 DEF LeadInv, LeadTyped, Checked, CurrentIn,
           Snapshot, Finding, Checks,
           Roles, Statuses

(* A reviewer closes findings; their pairs stay on record.                 *)
LEMMA FindingStep ==
  ASSUME LeadInv, UNCHANGED <<status, trends, truth>>,
         findings' \subseteq Finding,
         \A x \in findings : \E y \in findings' : y.pair = x.pair
  PROVE  LeadInv'
<1>1. LeadTyped'
  BY DEF LeadInv, LeadTyped, Snapshot, Finding,
         Checks, Roles, Statuses
<1>2. Checked'
  BY DEF LeadInv, Checked, CurrentIn
<1> QED BY <1>1, <1>2 DEF LeadInv

LEMMA CheckContradictionStep ==
  ASSUME LeadInv, NEW f \in Facts, NEW g \in Facts, NEW s \in Severities,
         CheckContradiction(f, g, s)
  PROVE  LeadInv'
<1> DEFINE x == [pair |-> {f, g}, kind |-> "contradiction", severity |-> s,
                 open |-> TRUE]
<1>1. findings' = findings \cup {x} /\ UNCHANGED <<status, trends, truth>>
  BY DEF CheckContradiction
<1>2. x \in Finding
  BY DEF Finding
<1> HIDE DEF x
<1> QED BY <1>1, <1>2, FindingStep DEF LeadInv, LeadTyped

LEMMA CheckTrajectoryStep ==
  ASSUME VerdictAssumption, LeadInv, NEW f \in Facts, NEW g \in Facts,
         CheckTrajectory(f, g)
  PROVE  LeadInv'
<1>1. /\ trends' = trends \cup {{f, g}} /\ UNCHANGED <<status, findings, truth>>
      /\ Classify(f, g) = "trajectory"
  BY DEF CheckTrajectory
<1>2. f # g
  BY <1>1, LeadFacts, ClassifyIsIrreflexive
<1>3. {f, g} \subseteq Facts /\ Cardinality({f, g}) = 2
  BY <1>2, PairHasTwo
<1>4. LeadTyped'
  BY <1>1, <1>3 DEF LeadInv, LeadTyped, Snapshot, Finding,
     Checks, Roles, Statuses
<1>5. Checked'
  BY <1>1 DEF LeadInv, Checked, CurrentIn
<1> QED BY <1>4, <1>5 DEF LeadInv

LEMMA ReviewFindingsStep ==
  ASSUME VerdictAssumption, LeadInv, ReviewFindings
  PROVE  LeadInv'
<1>1. UNCHANGED <<status, trends, truth>>
  BY DEF ReviewFindings
<1>2. CASE \E f, g \in Recorded :
             findings' = findings \cup
               {[pair |-> {f, g}, kind |-> "identity_conflict",
                 severity |-> "high", open |-> TRUE]}
  <2>1. PICK f \in Recorded, g \in Recorded :
          findings' = findings \cup
               {[pair |-> {f, g}, kind |-> "identity_conflict",
                 severity |-> "high", open |-> TRUE]}
    BY <1>2
  <2> DEFINE x == [pair |-> {f, g}, kind |-> "identity_conflict",
                   severity |-> "high", open |-> TRUE]
  <2>2. x \in Finding
    BY LeadFacts DEF Finding, Recorded
  <2>3. findings' = findings \cup {x}
    BY <2>1
  <2> HIDE DEF x
  <2> QED BY <1>1, <2>2, <2>3, FindingStep DEF LeadInv, LeadTyped
<1>3. CASE \E x \in findings :
             findings' = (findings \ {x}) \cup {[x EXCEPT !.open = FALSE]}
  <2>1. PICK x \in findings :
          findings' = (findings \ {x}) \cup {[x EXCEPT !.open = FALSE]}
    BY <1>3
  <2> DEFINE y == [x EXCEPT !.open = FALSE]
  <2>2. x \in Finding
    BY DEF LeadInv, LeadTyped
  <2>3. y \in Finding /\ y.pair = x.pair
    BY <2>2 DEF Finding
  <2>4. findings' = (findings \ {x}) \cup {y}
    BY <2>1
  <2> HIDE DEF y
  <2> QED BY <1>1, <2>3, <2>4, FindingStep DEF LeadInv, LeadTyped
<1> QED BY <1>2, <1>3 DEF ReviewFindings

(* compiled-truth freezes a complete check only over pairs that were       *)
(* recorded, in whichever order their facts stand.                         *)
LEMMA ExpectedPair ==
  ASSUME VerdictAssumption,
         NEW f \in Recorded, NEW g \in Recorded,
         IsCurrent(f), IsCurrent(g),
         NEW class \in {"contradiction", "trajectory"},
         Classify(f, g) = class
  PROVE  {f, g} \in ExpectedPairs(class)
<1>1. f \in Samples /\ g \in Samples
      /\ WellFormed(f) /\ WellFormed(g)
  BY LeadFacts DEF Recorded
<1>2. f # g /\ Classify(g, f) = class
  BY <1>1, ClassifyIsSymmetric, ClassifyIsIrreflexive
<1>3. Cardinality({f, g}) = 2
  BY <1>2, PairHasTwo
<1>4. /\ status[f] = "verified_fact" /\ f.sourced
      /\ status[g] = "verified_fact" /\ g.sourced
  BY Zenon DEF IsCurrent
<1>5. {f, g} \subseteq {h \in Recorded :
                          /\ status[h] \in {"verified_fact", "contradicted"}
                          /\ h.sourced}
  BY <1>4, Zenon
<1> QED BY <1>2, <1>3, <1>5 DEF ExpectedPairs

LEMMA FreezeTruthStep ==
  ASSUME VerdictAssumption, LeadInv, FreezeTruth
  PROVE  LeadInv'
<1> DEFINE roles == [f \in Recorded |-> RoleOf(f)]
           found == UnrecordedContradictions # {}
           checks == {c \in Checks :
                        IF c = "contradiction_check_complete"
                        THEN UnrecordedContradictions = {}
                        ELSE UncheckedTrajectories = {}}
<1>1. /\ truth' = [roles |-> roles, blocking |-> Blocking,
                   identity |-> IdentityConflicts,
                   unrecorded |-> found, checks |-> checks]
      /\ UNCHANGED <<status, findings, trends>>
  BY DEF FreezeTruth
<1>2. \E f \in Recorded : roles[f] = "current"
  BY DEF FreezeTruth, RoleOf
<1>3. \A f \in Recorded : f \in Facts /\ roles[f] \in Roles
  BY DEF Recorded, RoleOf, Roles
<1>4. \A x \in Blocking \cup IdentityConflicts :
        x \in Finding /\ x.open
  BY DEF LeadInv, LeadTyped, Blocking, IdentityConflicts,
         Open
<1>5. found \in BOOLEAN /\ checks \subseteq Checks
      /\ DOMAIN roles = Recorded
  OBVIOUS
<1>6. ASSUME NEW f \in Recorded, roles[f] = "current"
      PROVE  IsCurrent(f)
  BY <1>6 DEF RoleOf
<1>7. "contradiction_check_complete" \in checks =>
        UnrecordedContradictions = {}
  OBVIOUS
<1>8. "trajectory_check_complete" \in checks =>
        UncheckedTrajectories = {}
  OBVIOUS
<1> HIDE DEF roles, found, checks
<1>9. /\ truth'.roles = roles /\ truth'.checks = checks
      /\ truth'.blocking = Blocking
      /\ truth'.identity = IdentityConflicts
      /\ truth'.unrecorded = found
  BY <1>1
<1>10. Snapshot(truth')
  BY <1>2, <1>3, <1>4, <1>5, <1>9
  DEF Snapshot, Finding, Checks, Roles
<1>11. LeadTyped'
  BY <1>1, <1>10 DEF LeadInv, LeadTyped, Snapshot, Finding,
     Checks, Roles, Statuses
<1>12. Checked'
  <2> SUFFICES ASSUME NEW f \in CurrentIn(truth)',
                      NEW g \in CurrentIn(truth)'
               PROVE  /\ "contradiction_check_complete" \in checks =>
                           (Classify(f, g) = "contradiction"
                              => \E x \in findings : x.pair = {f, g})
                      /\ "trajectory_check_complete" \in checks =>
                           (Classify(f, g) = "trajectory"
                              => {f, g} \in trends)
    BY <1>1, <1>9 DEF Checked
  <2>1. /\ f \in Recorded /\ IsCurrent(f)
        /\ g \in Recorded /\ IsCurrent(g)
    BY <1>5, <1>6, <1>9 DEF CurrentIn
  <2>2. \A class \in {"contradiction", "trajectory"} :
          Classify(f, g) = class
            => {f, g} \in ExpectedPairs(class)
    BY <2>1, ExpectedPair
  <2>3. "contradiction_check_complete" \in checks
        /\ Classify(f, g) = "contradiction"
          => \E x \in findings : x.pair = {f, g}
    BY <1>7, <2>2 DEF UnrecordedContradictions
  <2>4. "trajectory_check_complete" \in checks
        /\ Classify(f, g) = "trajectory"
          => {f, g} \in trends
    <3>1. Classify(f, g) = "trajectory"
            => {f, g} \in ExpectedPairs("trajectory")
      BY <2>2
    <3> QED BY <1>8, <3>1 DEF UncheckedTrajectories
  <2> QED BY <2>3, <2>4
<1> QED BY <1>11, <1>12 DEF LeadInv

LEMMA LeadInductive ==
  ASSUME VerdictAssumption
  PROVE  VerdictSpec => []LeadInv
<1>1. VerdictInit => LeadInv
  BY DEF VerdictInit, LeadInv, LeadTyped, Checked, Statuses,
         Finding
<1>2. LeadInv /\ [VerdictNext]_verdictVars => LeadInv'
  <2> SUFFICES ASSUME LeadInv, [VerdictNext]_verdictVars
               PROVE  LeadInv'
    OBVIOUS
  <2>1. CASE \E f \in Facts : \/ \E s \in Statuses : Record(f, s)
                              \/ Promote(f) \/ Retract(f)
    BY <2>1, FactStep
  <2>2. CASE \E f, g \in Facts : \E s \in Severities :
               CheckContradiction(f, g, s)
    BY <2>2, CheckContradictionStep
  <2>3. CASE \E f, g \in Facts : CheckTrajectory(f, g)
    BY <2>3, CheckTrajectoryStep
  <2>4. CASE ReviewFindings
    BY <2>4, ReviewFindingsStep
  <2>5. CASE FreezeTruth
    BY <2>5, FreezeTruthStep
  <2>6. CASE \/ \E e \in Evaluations : Evaluate(e)
             \/ UNCHANGED verdictVars
    <3>1. UNCHANGED <<status, findings, trends, truth>>
      BY <2>6 DEF Evaluate, verdictVars
    <3> QED BY <3>1, FindingStep DEF LeadInv, LeadTyped
  <2> QED BY <2>1, <2>2, <2>3, <2>4, <2>5, <2>6 DEF VerdictNext
<1> QED BY <1>1, <1>2, PTL DEF VerdictSpec

(* What calculate_score demands of a high priority, for every rubric.      *)
LEMMA HighPriorityNeeds ==
  ASSUME NEW rubric, NEW sheet, NEW flags, NEW adjustments,
         Score(rubric, sheet, flags, adjustments).recommendation
           = "high_priority"
  PROVE  /\ flags \cap HumanReview = {}
         /\ "identity_reliable" \in flags
         /\ rubric.checks \subseteq flags
<1> DEFINE band == BandOf(rubric, Final(rubric, sheet, adjustments))
<1>1. Override(rubric, sheet, flags, band).to = "high_priority"
  BY DEF Score
<1> HIDE DEF band
<1>2. /\ flags \cap HumanReview = {}
      /\ Ready(rubric, sheet, flags)
      /\ HighPriorityReady(rubric, sheet, flags)
  BY <1>1 DEF Override
<1> QED BY <1>2 DEF Ready, HighPriorityReady

(* What the flags that evaluation-save derives say, whatever is claimed.   *)
LEMMA DerivedFlagsDecide ==
  ASSUME NEW t, NEW claims, NEW flags,
         flags = EffectiveFlags(t, claims),
         t.checks \subseteq Checks
  PROVE  /\ "blocking_contradiction" \notin flags => Blocking = {}
         /\ "identity_reliable" \in flags => IdentityConflicts = {}
         /\ \A c \in Checks : c \in flags => c \in t.checks
<1>1. \A x \in Derived : x \in flags <=> x \in DerivedFlags(t)
  BY DEF EffectiveFlags
<1>2. {"identity_reliable", "blocking_contradiction"} \cup Checks
        \subseteq Derived
  BY DEF Derived
<1>3. "blocking_contradiction" \notin DerivedFlags(t)
        => Blocking = {}
  BY DEF DerivedFlags
<1>4. "identity_reliable" \in DerivedFlags(t)
        => IdentityConflicts = {}
  BY DEF DerivedFlags, Checks
<1>5. \A c \in Checks :
        c \in DerivedFlags(t) => c \in t.checks
  BY DEF DerivedFlags, Checks
<1> QED BY <1>1, <1>2, <1>3, <1>4, <1>5

(* A lead gets a high priority only from a snapshot whose current facts    *)
(* were all checked against each other, with nothing open that blocks,     *)
(* under every rubric that asks for both checks.                           *)
THEOREM HighPriorityIsAlwaysEarned ==
  ASSUME VerdictAssumption, Checks \subseteq Rubric.checks
  PROVE  VerdictSpec => HighPriorityIsEarned
<1> DEFINE Earned ==
      /\ Blocking = {} /\ IdentityConflicts = {}
      /\ \A f, g \in CurrentIn(truth) :
           /\ Classify(f, g) = "contradiction" =>
                \E x \in findings : x.pair = {f, g}
           /\ Classify(f, g) = "trajectory" => {f, g} \in trends
<1>1. LeadInv /\ [VerdictNext]_verdictVars =>
        [verdict' # None /\ verdict'.recommendation = "high_priority"
           => Earned]_verdictVars
  <2> SUFFICES ASSUME LeadInv, VerdictNext, verdict' # None,
                      verdict'.recommendation = "high_priority"
               PROVE  Earned
    OBVIOUS
  <2>1. PICK e \in Evaluations : Evaluate(e)
    BY DEF VerdictNext, Record, Promote, Retract,
           CheckContradiction, CheckTrajectory,
           ReviewFindings, FreezeTruth
  <2> DEFINE flags == EffectiveFlags(truth, e.claims)
  <2>2. truth # None
        /\ verdict' = Score(Rubric, e.sheet, flags, e.adjustments)
    BY <2>1 DEF Evaluate
  <2>3. flags = EffectiveFlags(truth, e.claims)
    OBVIOUS
  <2> HIDE DEF flags
  <2>4. /\ flags \cap HumanReview = {}
        /\ "identity_reliable" \in flags /\ Rubric.checks \subseteq flags
    BY <2>2, HighPriorityNeeds
  <2>5. "blocking_contradiction" \notin flags
    BY <2>4 DEF HumanReview
  <2>6. truth.checks \subseteq Checks
    BY <2>2 DEF LeadInv, LeadTyped, Snapshot
  <2>7. /\ Blocking = {} /\ IdentityConflicts = {}
        /\ \A c \in Checks : c \in truth.checks
    BY <2>3, <2>4, <2>5, <2>6, DerivedFlagsDecide
  <2>8. /\ "contradiction_check_complete" \in truth.checks
        /\ "trajectory_check_complete" \in truth.checks
    BY <2>7 DEF Checks
  <2> QED BY <2>2, <2>7, <2>8 DEF LeadInv, Checked
<1> QED BY <1>1, LeadInductive, PTL
        DEF VerdictSpec, HighPriorityIsEarned

-----------------------------------------------------------------------------
(* Sums of integers are integers: the recursion of SumFunctionOnSet has a  *)
(* solution, built up by the size of the sets, and none of its values is a *)
(* least counterexample.                                                   *)
LEMMA LeastNumber ==
  ASSUME NEW T \in SUBSET Nat, T # {}
  PROVE  \E x \in T : \A y \in T : x <= y
<1> DEFINE less == {p \in Nat \X Nat : p[1] < p[2]}
<1>1. IsWellFoundedOn(less, Nat)
  BY NatLessThanWellFounded, Zenon DEF OpToRel
<1>2. \A x, y \in T : <<y, x>> \notin less => x <= y
  OBVIOUS
<1> HIDE DEF less
<1> QED BY <1>1, <1>2, WFMin

Member(s) == CHOOSE x \in s : TRUE

(* The sum over s, when iter has the sums over the smaller sets.           *)
SumStep(fun, iter, s) ==
  IF s = {} THEN 0 ELSE fun[Member(s)] + iter[s \ {Member(s)}]

Recurs(fun, S, iter) == iter = [s \in SUBSET S |-> SumStep(fun, iter, s)]

Sums(fun, S) == CHOOSE iter : Recurs(fun, S, iter)

LEMMA SumIsFold ==
  ASSUME NEW fun, NEW S
  PROVE  SumFunctionOnSet(fun, S) = Sums(fun, S)[S]
  BY DEF SumFunctionOnSet, FoldFunctionOnSet,
         MapThenFoldSet, Sums, Recurs, SumStep, Member

UpTo(S, n) == {s \in SUBSET S : Cardinality(s) <= n}

Solves(fun, S, n, iter) ==
  /\ iter \in [UpTo(S, n) -> Int]
  /\ \A s \in UpTo(S, n) : iter[s] = SumStep(fun, iter, s)

LEMMA MemberIsOne ==
  ASSUME NEW S, IsFiniteSet(S), NEW s \in SUBSET S, s # {}
  PROVE  /\ Member(s) \in s /\ s \ {Member(s)} \in SUBSET S
         /\ IsFiniteSet(s) /\ Cardinality(s) \in Nat
         /\ Cardinality(s \ {Member(s)}) = Cardinality(s) - 1
         /\ Cardinality(s \ {Member(s)}) \in Nat
<1>1. Member(s) \in s
  BY DEF Member
<1>2. IsFiniteSet(s)
  BY FS_Subset
<1>3. Cardinality(s) \in Nat /\ IsFiniteSet(s \ {Member(s)})
      /\ Cardinality(s \ {Member(s)}) = Cardinality(s) - 1
  BY <1>1, <1>2, FS_CardinalityType, FS_RemoveElement
<1>4. Cardinality(s \ {Member(s)}) \in Nat
  BY <1>3, FS_CardinalityType
<1> QED BY <1>1, <1>2, <1>3, <1>4

LEMMA SolutionGrows ==
  ASSUME NEW fun, NEW S, IsFiniteSet(S), \A x \in S : fun[x] \in Int,
         NEW n \in Nat, NEW g, Solves(fun, S, n, g)
  PROVE  \E h : Solves(fun, S, n + 1, h)
<1> DEFINE h == [s \in UpTo(S, n + 1) |-> SumStep(fun, g, s)]
<1>1. \A s \in UpTo(S, n) : s \in UpTo(S, n + 1)
  <2> SUFFICES ASSUME NEW s \in UpTo(S, n)
               PROVE  Cardinality(s) <= n + 1
    BY DEF UpTo
  <2>1. Cardinality(s) <= n /\ Cardinality(s) \in Nat
    BY FS_Subset, FS_CardinalityType DEF UpTo
  <2> QED BY <2>1
<1>2. \A s \in UpTo(S, n) : h[s] = g[s]
  BY <1>1 DEF Solves
<1>3. ASSUME NEW s \in UpTo(S, n + 1), s # {}
      PROVE  /\ Member(s) \in S /\ s \ {Member(s)} \in UpTo(S, n)
             /\ g[s \ {Member(s)}] \in Int
  <2>1. s \in SUBSET S /\ Cardinality(s) <= n + 1
    BY DEF UpTo
  <2>2. /\ Member(s) \in s /\ s \ {Member(s)} \in SUBSET S
        /\ Cardinality(s) \in Nat
        /\ Cardinality(s \ {Member(s)}) = Cardinality(s) - 1
    BY <1>3, <2>1, MemberIsOne
  <2>3. s \ {Member(s)} \in UpTo(S, n)
    BY <2>1, <2>2 DEF UpTo
  <2> QED BY <2>1, <2>2, <2>3 DEF Solves
<1>4. ASSUME NEW s \in UpTo(S, n + 1)
      PROVE  h[s] \in Int /\ h[s] = SumStep(fun, h, s)
  <2>1. CASE s = {}
    BY <2>1 DEF SumStep
  <2>2. CASE s # {}
    <3> DEFINE t == s \ {Member(s)}
    <3>1. t \in UpTo(S, n) /\ fun[Member(s)] \in Int /\ g[t] \in Int
      BY <1>3, <2>2
    <3>2. h[t] = g[t]
      BY <1>2, <3>1
    <3>3. h[s] = fun[Member(s)] + g[t]
      BY <2>2 DEF SumStep
    <3> HIDE DEF h, t
    <3>4. h[s] = fun[Member(s)] + h[t] /\ h[s] \in Int
      BY <3>1, <3>2, <3>3
    <3> QED BY <2>2, <3>4 DEF SumStep, t
  <2> QED BY <2>1, <2>2
<1>5. h = [s \in UpTo(S, n + 1) |-> h[s]]
  OBVIOUS
<1> HIDE DEF h
<1>6. h \in [UpTo(S, n + 1) -> Int]
  BY <1>4, <1>5
<1> QED BY <1>4, <1>6 DEF Solves

LEMMA SumsExist ==
  ASSUME NEW fun, NEW S, IsFiniteSet(S), \A x \in S : fun[x] \in Int
  PROVE  Recurs(fun, S, Sums(fun, S))
<1> DEFINE Bad == {n \in Nat : ~\E g : Solves(fun, S, n, g)}
<1>1. \E g : Solves(fun, S, 0, g)
  <2> DEFINE g == [s \in UpTo(S, 0) |-> 0]
  <2>1. \A s \in UpTo(S, 0) : s = {}
    <3> SUFFICES ASSUME NEW s \in UpTo(S, 0)
                 PROVE  s = {}
      OBVIOUS
    <3>1. IsFiniteSet(s) /\ Cardinality(s) <= 0 /\ s \in SUBSET S
      BY FS_Subset DEF UpTo
    <3>2. Cardinality(s) = 0
      BY <3>1, FS_CardinalityType
    <3> QED BY <3>1, <3>2, FS_EmptySet
  <2>2. Solves(fun, S, 0, g)
    BY <2>1 DEF Solves, SumStep
  <2> QED BY <2>2
<1>2. Bad = {}
  <2> SUFFICES ASSUME Bad # {}
               PROVE  FALSE
    OBVIOUS
  <2>1. PICK n \in Bad : \A m \in Bad : n <= m
    BY LeastNumber
  <2>2. n \in Nat \ {0} /\ n - 1 \in Nat
    BY <1>1
  <2>3. n - 1 \notin Bad
    BY <2>1, <2>2
  <2>4. PICK g : Solves(fun, S, n - 1, g)
    BY <2>2, <2>3
  <2>5. \E h : Solves(fun, S, (n - 1) + 1, h)
    BY <2>2, <2>4, SolutionGrows
  <2>6. (n - 1) + 1 = n
    BY <2>2
  <2> QED BY <2>5, <2>6
<1>3. Cardinality(S) \in Nat
  BY FS_CardinalityType
<1>4. PICK g : Solves(fun, S, Cardinality(S), g)
  BY <1>2, <1>3
<1>5. UpTo(S, Cardinality(S)) = SUBSET S
  BY FS_Subset DEF UpTo
<1>6. Recurs(fun, S, g)
  BY <1>4, <1>5 DEF Solves, Recurs
<1> QED BY <1>6 DEF Sums

LEMMA SumIsInt ==
  ASSUME NEW fun, NEW S, IsFiniteSet(S), \A x \in S : fun[x] \in Int
  PROVE  SumFunctionOnSet(fun, S) \in Int
<1> DEFINE sums == Sums(fun, S)
<1>0. Recurs(fun, S, sums)
  BY SumsExist
<1>1. sums = [s \in SUBSET S |-> SumStep(fun, sums, s)]
  BY <1>0 DEF Recurs
<1> HIDE DEF sums
<1> DEFINE Bad == {s \in SUBSET S : sums[s] \notin Int}
           Sizes == {Cardinality(s) : s \in Bad}
<1>2. Bad = {}
  <2> SUFFICES ASSUME Bad # {}
               PROVE  FALSE
    OBVIOUS
  <2>1. Sizes \in SUBSET Nat /\ Sizes # {}
    BY FS_Subset, FS_CardinalityType
  <2>2. PICK n \in Sizes : \A m \in Sizes : n <= m
    BY <2>1, LeastNumber
  <2>3. PICK s \in Bad : n = Cardinality(s)
    BY <2>2
  <2>4. s # {}
    BY <1>1, <2>3 DEF SumStep
  <2>5. /\ Member(s) \in S /\ s \ {Member(s)} \in SUBSET S
        /\ Cardinality(s) \in Nat
        /\ Cardinality(s \ {Member(s)}) = Cardinality(s) - 1
    BY <2>3, <2>4, MemberIsOne
  <2>6. s \ {Member(s)} \notin Bad
    BY <2>2, <2>3, <2>5
  <2>7. sums[s] = fun[Member(s)] + sums[s \ {Member(s)}]
    BY <1>1, <2>3, <2>4 DEF SumStep
  <2>8. sums[s] \in Int
    BY <2>5, <2>6, <2>7
  <2> QED BY <2>3, <2>8
<1>3. sums[S] \in Int
  BY <1>2
<1> QED BY <1>3, SumIsFold DEF sums

-----------------------------------------------------------------------------
(* The bands of the reviewed rubric.                                       *)
LEMMA FourAreFinite ==
  ASSUME NEW a, NEW b, NEW c, NEW d
  PROVE  IsFiniteSet({a, b, c, d})
<1>1. IsFiniteSet({a}) /\ IsFiniteSet({b}) /\ IsFiniteSet({c}) /\ IsFiniteSet({d})
  BY FS_Singleton
<1>2. IsFiniteSet({a} \cup {b}) /\ IsFiniteSet({c} \cup {d})
  BY <1>1, FS_Union
<1>3. IsFiniteSet(({a} \cup {b}) \cup ({c} \cup {d}))
  BY <1>2, FS_Union
<1>4. ({a} \cup {b}) \cup ({c} \cup {d}) = {a, b, c, d}
  OBVIOUS
<1> QED BY <1>3, <1>4

LEMMA ReviewedWeights ==
  LET weight == ReviewedRubric.weight
  IN  /\ IsFiniteSet(DOMAIN weight)
      /\ \A k \in DOMAIN weight : weight[k] \in Int
<1> DEFINE weight == ReviewedRubric.weight
           some == {"thesis_stage_geography_fit", "founder_team_signal",
                    "problem_product_depth", "technical_differentiation"}
           others == {"traction_adoption", "market_buyer_timing",
                      "business_commercial_evidence", "risk_decision_readiness"}
<1>1. /\ DOMAIN weight = some \cup others
      /\ \A k \in some \cup others : weight[k] \in Int
  BY DEF ReviewedRubric
<1>2. IsFiniteSet(some) /\ IsFiniteSet(others)
  BY FourAreFinite
<1>3. IsFiniteSet(some \cup others)
  BY <1>2, FS_Union
<1> QED BY <1>1, <1>3

LEMMA InRange ==
  ASSUME NEW lo \in Int, NEW hi \in Int, NEW n \in Int, lo <= n, n <= hi
  PROVE  n \in lo..hi
  OBVIOUS

IsScore(n) == n \in Nat /\ n <= FullScore

LEMMA ScoreInRange ==
  ASSUME NEW n, IsScore(n)
  PROVE  n \in 0..FullScore
<1>1. FullScore \in Int /\ 0 \in Int
  BY DEF FullScore
<1> QED BY <1>1, InRange DEF IsScore

LEMMA ReviewedBand ==
  ASSUME NEW score, IsScore(score)
  PROVE  LET band == BandOf(ReviewedRubric, score)
         IN  \/ band = "pass" /\ score < 50000
             \/ band = "watch" /\ 50000 <= score /\ score < 66000
             \/ band = "research_deeper" /\ 66000 <= score /\ score < 82000
             \/ band = "high_priority" /\ 82000 <= score
<1>0. score \in Nat /\ score <= 100000
  BY DEF IsScore, FullScore
<1> DEFINE iv == ReviewedRubric.intervals
<1>1. iv = <<Interval("pass", 0, 50), Interval("watch", 50, 66),
             Interval("research_deeper", 66, 82),
             Interval("high_priority", 82, 100)>>
  BY DEF ReviewedRubric
<1>2. /\ DOMAIN iv = 1..4 /\ Len(iv) = 4
      /\ iv[1].name = "pass" /\ iv[1].from = 0 /\ iv[1].to = 50
      /\ iv[2].name = "watch" /\ iv[2].from = 50 /\ iv[2].to = 66
      /\ iv[3].name = "research_deeper" /\ iv[3].from = 66 /\ iv[3].to = 82
      /\ iv[4].name = "high_priority" /\ iv[4].from = 82 /\ iv[4].to = 100
  BY <1>1 DEF Interval
<1> HIDE DEF iv
<1>3. BandsOf(ReviewedRubric, score)
        = {i \in 1..4 : /\ score >= 1000 * iv[i].from
                        /\ \/ score < 1000 * iv[i].to
                           \/ i = 4 /\ score = 1000 * iv[i].to}
  BY <1>2 DEF BandsOf, iv
<1>4. \A i \in 1..4 : Min({i}) = i
  BY DEF Min
<1>5. ASSUME NEW i \in 1..4,
             BandsOf(ReviewedRubric, score) = {i}
      PROVE  BandOf(ReviewedRubric, score) = iv[i].name
  BY <1>4, <1>5 DEF BandOf, iv
<1>6. CASE score < 50000
  <2>1. BandsOf(ReviewedRubric, score) = {1}
    BY <1>0, <1>2, <1>3, <1>6
  <2> QED BY <1>2, <1>5, <1>6, <2>1
<1>7. CASE 50000 <= score /\ score < 66000
  <2>1. BandsOf(ReviewedRubric, score) = {2}
    BY <1>0, <1>2, <1>3, <1>7
  <2> QED BY <1>2, <1>5, <1>7, <2>1
<1>8. CASE 66000 <= score /\ score < 82000
  <2>1. BandsOf(ReviewedRubric, score) = {3}
    BY <1>0, <1>2, <1>3, <1>8
  <2> QED BY <1>2, <1>5, <1>8, <2>1
<1>9. CASE 82000 <= score
  <2>1. BandsOf(ReviewedRubric, score) = {4}
    BY <1>0, <1>2, <1>3, <1>9
  <2> QED BY <1>2, <1>5, <1>9, <2>1
<1> QED BY <1>0, <1>6, <1>7, <1>8, <1>9

LEMMA LesserOf ==
  ASSUME NEW a \in Int, NEW b \in Int
  PROVE  Min({a, b}) = IF a <= b THEN a ELSE b
<1>1. CASE a <= b
  BY <1>1 DEF Min
<1>2. CASE b < a
  BY <1>2 DEF Min
<1> QED BY <1>1, <1>2

LEMMA GreaterOf ==
  ASSUME NEW a \in Int, NEW b \in Int
  PROVE  Max({a, b}) = IF a >= b THEN a ELSE b
<1>1. CASE a >= b
  BY <1>1 DEF Max
<1>2. CASE b > a
  BY <1>2 DEF Max
<1> QED BY <1>1, <1>2

LEMMA ClampedRange ==
  ASSUME NEW n \in Int
  PROVE  IsScore(Clamped(n))
<1> DEFINE top == FullScore
           least == Min({top, n})
<1>1. top \in Nat
  BY DEF FullScore
<1>2. Clamped(n) = Max({0, least})
  BY DEF Clamped
<1>3. IsScore(Clamped(n))
        <=> Clamped(n) \in Nat /\ Clamped(n) <= top
  BY DEF IsScore
<1> HIDE DEF top
<1>4. least = IF top <= n THEN top ELSE n
  BY <1>1, LesserOf
<1> HIDE DEF least
<1>5. least \in Int /\ least <= top
  BY <1>1, <1>4
<1>6. Max({0, least}) = IF 0 >= least THEN 0 ELSE least
  BY <1>5, GreaterOf
<1> DEFINE most == Max({0, least})
<1> HIDE DEF most
<1>7. most \in Nat /\ most <= top
  BY <1>1, <1>5, <1>6 DEF most
<1> QED BY <1>2, <1>3, <1>7 DEF most

LEMMA UpToFifty ==
  \A q \in 0..50 : q \in Int
<1>1. \A lo, hi \in Int : \A q \in lo..hi : q \in Int
  OBVIOUS
<1>2. 0 \in Int /\ 50 \in Int
  OBVIOUS
<1> QED BY <1>1, <1>2, Zenon

(* What a valid sheet and valid adjustments come to is a score.            *)
LEMMA FinalRange ==
  ASSUME VerdictAssumption, Rubric = ReviewedRubric,
         NEW e \in Evaluations, NEW t, CitesSnapshot(t, e)
  PROVE  IsScore(Final(Rubric, e.sheet, e.adjustments))
<1> DEFINE points == [k \in DOMAIN e.sheet |-> Points(Rubric, e.sheet, k)]
           shifts == [i \in DOMAIN e.adjustments |-> e.adjustments[i].points]
<1>1. DOMAIN e.sheet = DOMAIN Rubric.weight /\ Len(e.adjustments) \in Nat
      /\ DOMAIN e.adjustments = 1..Len(e.adjustments)
  BY DEF VerdictAssumption
<1>2. IsFiniteSet(DOMAIN e.sheet) /\ \A k \in DOMAIN e.sheet : Rubric.weight[k] \in Int
  BY <1>1, ReviewedWeights
<1>3. ASSUME NEW k \in DOMAIN e.sheet
      PROVE  points[k] \in Int
  <2>1. CASE k \in Evaluated(e.sheet)
    <3>1. e.sheet[k] # None /\ e.sheet[k].state \notin Unscored
      BY <2>1 DEF Evaluated, Missing, Unscored
    <3>2. ValidEntry(e.sheet[k])
      BY <3>1 DEF CitesSnapshot
    <3>3. e.sheet[k].quality \in 0..50
      BY <3>1, <3>2 DEF ValidEntry
    <3>4. points[k] = Rubric.weight[k] * e.sheet[k].quality * 20
      BY <2>1 DEF Points
    <3>5. Rubric.weight[k] \in Int
      BY <1>2
    <3>6. e.sheet[k].quality \in Int
      BY <3>3, UpToFifty, Zenon
    <3>7. \A w, q \in Int : w * q * 20 \in Int
      OBVIOUS
    <3>8. Rubric.weight[k] * e.sheet[k].quality * 20 \in Int
      BY <3>5, <3>6, <3>7, Zenon
    <3> QED BY <3>4, <3>8, Zenon
  <2>2. CASE k \notin Evaluated(e.sheet)
    BY <2>2 DEF Points
  <2> QED BY <2>1, <2>2
<1>4. ASSUME NEW i \in DOMAIN e.adjustments
      PROVE  shifts[i] \in Int
  BY DEF CitesSnapshot, ValidAdjustment
<1>5. IsFiniteSet(DOMAIN e.adjustments)
  BY <1>1, FS_Interval
<1>6. DOMAIN points = DOMAIN e.sheet /\ DOMAIN shifts = DOMAIN e.adjustments
  OBVIOUS
<1>7. Final(Rubric, e.sheet, e.adjustments)
        = Clamped(SumFunction(points)
                           + 1000 * SumFunction(shifts))
  BY DEF Final, Raw
<1> HIDE DEF points, shifts
<1>8. SumFunction(points) \in Int
  BY <1>2, <1>3, <1>6, SumIsInt DEF SumFunction
<1>9. SumFunction(shifts) \in Int
  BY <1>4, <1>5, <1>6, SumIsInt DEF SumFunction
<1> QED BY <1>7, <1>8, <1>9, ClampedRange

(* Whichever override applies, the table takes the score and its band.     *)
LEMMA ScoreIsStorable ==
  ASSUME NEW sheet, NEW flags, NEW adjustments, NEW n, IsScore(n),
         n = Final(ReviewedRubric, sheet, adjustments)
  PROVE  Storable(
           Score(ReviewedRubric, sheet, flags, adjustments))
<1> DEFINE final == Final(ReviewedRubric, sheet, adjustments)
           band == BandOf(ReviewedRubric, final)
           over == Override(ReviewedRubric, sheet, flags, band)
           result == Score(ReviewedRubric, sheet, flags, adjustments)
<1>1. result.final = final /\ result.recommendation = over.to /\ result.override = over.by
  BY DEF Score
<1>2. \/ over.by = "hard_exclusion" /\ over.to = "pass"
      \/ over.to \in {"needs_human_review", "insufficient_evidence"}
      \/ /\ over.by = "high_priority_prerequisites_missing"
         /\ over.to = "research_deeper" /\ band = "high_priority"
      \/ over.to = band
  BY DEF Override
<1>3. \/ band = "pass" /\ final < 50000
      \/ band = "watch" /\ 50000 <= final /\ final < 66000
      \/ band = "research_deeper" /\ 66000 <= final /\ final < 82000
      \/ band = "high_priority" /\ 82000 <= final
  BY ReviewedBand
<1>4. IsScore(final)
  OBVIOUS
<1> HIDE DEF final, band, over, result
<1>5. Storable(result)
  BY <1>1, <1>2, <1>3, <1>4 DEF Storable, IsScore, FullScore
<1> QED BY <1>5 DEF result

(* What calculate_score returns under the reviewed rubric is a score and a *)
(* band that the table accepts, for every lead and every evaluation.       *)
THEOREM EveryVerdictIsAlwaysStored ==
  ASSUME VerdictAssumption, Rubric = ReviewedRubric
  PROVE  VerdictSpec => []EveryVerdictIsStored
<1> DEFINE Stored == verdict # None =>
                       IsScore(verdict.final) /\ Storable(verdict)
<1>1. VerdictInit => Stored
  BY DEF VerdictInit
<1>2. Stored /\ [VerdictNext]_verdictVars => Stored'
  <2> SUFFICES ASSUME Stored, [VerdictNext]_verdictVars, verdict' # None
               PROVE  IsScore(verdict'.final) /\ Storable(verdict')
    OBVIOUS
  <2>1. CASE \E e \in Evaluations : Evaluate(e)
    <3>1. PICK e \in Evaluations : Evaluate(e)
      BY <2>1
    <3>2. verdict' = Score(Rubric, e.sheet,
                        EffectiveFlags(truth, e.claims), e.adjustments)
      BY <3>1 DEF Evaluate
    <3> DEFINE n == Final(Rubric, e.sheet, e.adjustments)
    <3>3. IsScore(n)
      BY <3>1, FinalRange DEF Evaluate
    <3>4. verdict'.final = n
      BY <3>2 DEF Score
    <3>5. Storable(verdict')
      BY <3>2, <3>3, ScoreIsStorable
    <3> QED BY <3>3, <3>4, <3>5
  <2>2. CASE UNCHANGED verdict
    BY <2>2
  <2> QED BY <2>1, <2>2
      DEF VerdictNext, Record, Promote, Retract,
          CheckContradiction, CheckTrajectory,
          ReviewFindings, FreezeTruth, verdictVars
<1>3. LeadInv /\ Stored => EveryVerdictIsStored
  <2>1. IsScore(verdict.final) => verdict.final \in 0..FullScore
    BY ScoreInRange, Zenon
  <2> QED BY <2>1, Zenon DEF LeadInv, LeadTyped, EveryVerdictIsStored,
                             VerdictTypeOK
<1> QED BY <1>1, <1>2, <1>3, LeadInductive, PTL DEF VerdictSpec

=============================================================================
