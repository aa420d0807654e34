----------------------- MODULE QuestionWorkflowProofs -----------------------
(***************************************************************************)
(* Invariance proofs about QuestionWorkflow, for any numbers of processes, *)
(* keys, passages, plans, answers and revisions, any drafts of the model   *)
(* and of the readers, and whichever process dies.                         *)
(***************************************************************************)
EXTENDS QuestionWorkflow, SequenceTheorems, TLAPS

-----------------------------------------------------------------------------
(* Tables: sequences in which rows are changed and to which rows are added.*)
LEMMA RowChanged ==
  ASSUME NEW S, NEW s \in Seq(S), NEW i \in DOMAIN s, NEW v \in S
  PROVE  LET t == [s EXCEPT ![i] = v]
         IN /\ t \in Seq(S) /\ Len(t) = Len(s) /\ DOMAIN t = DOMAIN s
            /\ t[i] = v /\ \A k \in DOMAIN s : k # i => t[k] = s[k]
BY ExceptSeq

LEMMA RowAdded ==
  ASSUME NEW S, NEW s \in Seq(S), NEW v \in S
  PROVE  LET t == Append(s, v)
         IN /\ t \in Seq(S) /\ Len(t) = Len(s) + 1
            /\ DOMAIN t = 1..(Len(s) + 1) /\ DOMAIN s = 1..Len(s) /\ Len(s) \in Nat
            /\ t[Len(s) + 1] = v /\ \A k \in DOMAIN s : t[k] = s[k]
BY AppendProperties, LenProperties

LEMMA ClaimsAreStored ==
  ASSUME NEW draft \in AnswerDrafts, Materializable(draft)
  PROVE  /\ StoredClaims(draft) \in Seq(StoredClaim) /\ StoredClaims(draft) # <<>>
         /\ Verification(draft) \in {"VERIFIED", "INSUFFICIENT_EVIDENCE"}
         /\ Verification(draft) = "VERIFIED" =>
              \A i \in DOMAIN StoredClaims(draft) :
                /\ StoredClaims(draft)[i].type = "SUPPORTED"
                /\ StoredClaims(draft)[i].evidence # {}
<1> DEFINE claims == draft.claims
           stored == StoredClaims(draft)
<1>1. /\ claims \in Seq(Claims) /\ claims # <<>>
      /\ draft.status \in {"SUCCESS", "INSUFFICIENT_EVIDENCE"}
  BY DEF AnswerDrafts, Materializable
<1>2. \A i \in DOMAIN claims :
        /\ claims[i] \in Range(claims)
        /\ claims[i].type \in {"SUPPORTED", "INSUFFICIENT_EVIDENCE"}
        /\ Range(claims[i].cites) \subseteq ContextSpans
        /\ claims[i].cites \in Seq(ContextSpans \cup {"context_missing"})
  <2> SUFFICES ASSUME NEW i \in DOMAIN claims
               PROVE  /\ claims[i] \in Range(claims)
                      /\ claims[i].type \in {"SUPPORTED", "INSUFFICIENT_EVIDENCE"}
                      /\ Range(claims[i].cites) \subseteq ContextSpans
                      /\ claims[i].cites \in Seq(ContextSpans \cup {"context_missing"})
    OBVIOUS
  <2>1. claims[i] \in Claims /\ claims[i] \in Range(claims)
    BY <1>1, ElementOfSeq DEF Range
  <2> QED
    BY <2>1 DEF Claims, Materializable
<1>3. /\ DOMAIN stored = DOMAIN claims
      /\ \A i \in DOMAIN claims : /\ stored[i].type = claims[i].type
                                  /\ stored[i].evidence = Range(claims[i].cites)
                                  /\ stored[i] \in StoredClaim
  BY <1>2 DEF StoredClaims, StoredClaim
<1>4. stored \in Seq(StoredClaim) /\ Len(stored) = Len(claims)
  <2>1. stored \in [1..Len(claims) -> StoredClaim] /\ Len(claims) \in Nat
    BY <1>1, <1>2, LenProperties DEF StoredClaims, StoredClaim
  <2> HIDE DEF stored
  <2> QED
    BY <2>1, IsASeq, LenProperties
<1>5. stored # <<>>
  BY <1>1, <1>4, EmptySeq
<1>6. ASSUME Verification(draft) = "VERIFIED", NEW i \in DOMAIN stored
      PROVE  stored[i].type = "SUPPORTED" /\ stored[i].evidence # {}
  <2>1. claims[i].type = "SUPPORTED" /\ claims[i].cites # <<>>
    BY <1>1, <1>2, <1>3, <1>6 DEF Verification, Materializable
  <2>2. ASSUME NEW c \in Seq(ContextSpans \cup {"context_missing"}), c # <<>>
        PROVE  Range(c) # {}
    <3>1. Len(c) \in Nat \ {0} /\ DOMAIN c = 1..Len(c)
      BY <2>2, EmptySeq, LenProperties
    <3>2. 1 \in DOMAIN c
      BY <3>1
    <3> QED
      BY <3>2 DEF Range
  <2> QED
    BY <1>2, <1>3, <2>1, <2>2
<1>7. Verification(draft) \in {"VERIFIED", "INSUFFICIENT_EVIDENCE"}
  BY DEF Verification
<1> HIDE DEF stored
<1> QED
  BY <1>4, <1>5, <1>6, <1>7 DEF stored

-----------------------------------------------------------------------------
(* Histories. What Chain says, with what makes it inductive: every         *)
(* revision belongs to a row, and none of a row is numbered past the       *)
(* current one.                                                            *)
History(rows, revisions) ==
  /\ \A r \in DOMAIN revisions : revisions[r].of \in DOMAIN rows
  /\ \A i \in DOMAIN rows :
       rows[i].current \in DOMAIN revisions /\ revisions[rows[i].current].of = i
  /\ \A r \in DOMAIN revisions : r # rows[revisions[r].of].current =>
       \E next \in DOMAIN revisions : /\ revisions[next].of = revisions[r].of
                                      /\ revisions[next].supersedes = r
  /\ \A r \in DOMAIN revisions :
       IF revisions[r].supersedes = 0 THEN revisions[r].number = 1
       ELSE /\ revisions[r].supersedes \in DOMAIN revisions
            /\ revisions[revisions[r].supersedes].of = revisions[r].of
            /\ revisions[r].number = revisions[revisions[r].supersedes].number + 1
  /\ \A r, s \in DOMAIN revisions :
       revisions[r].of = revisions[s].of /\ revisions[r].number = revisions[s].number => r = s
  /\ \A r \in DOMAIN revisions :
       revisions[r].number <= revisions[rows[revisions[r].of].current].number

LEMMA HistoryMakesAChain ==
  ASSUME NEW rows, NEW revisions, History(rows, revisions)
  PROVE  Chain(rows, revisions)
<1> SUFFICES ASSUME NEW i \in DOMAIN rows
             PROVE  LET own == {r \in DOMAIN revisions : revisions[r].of = i} IN
                    /\ rows[i].current \in own
                    /\ \A r \in own : r # rows[i].current =>
                         \E next \in own : revisions[next].supersedes = r
                    /\ \A r \in own :
                         IF revisions[r].supersedes = 0 THEN revisions[r].number = 1
                         ELSE /\ revisions[r].supersedes \in own
                              /\ revisions[r].number = revisions[revisions[r].supersedes].number + 1
                    /\ \A r, s \in own : revisions[r].number = revisions[s].number => r = s
  BY DEF Chain
<1> QED
  BY DEF History

(* A history does not depend on anything else the rows say.                *)
LEMMA HistoryKept ==
  ASSUME NEW rows, NEW rows2, NEW revisions, History(rows, revisions),
         DOMAIN rows2 = DOMAIN rows, \A i \in DOMAIN rows : rows2[i].current = rows[i].current
  PROVE  History(rows2, revisions)
BY DEF History

(* An edit: one more revision, of row q, after its current one.            *)
Extended(rows, rows2, revisions, revisions2, m, q) ==
  /\ q \in DOMAIN rows
  /\ DOMAIN revisions = 1..m /\ DOMAIN revisions2 = 1..(m + 1)
  /\ \A r \in 1..m : revisions2[r] = revisions[r] /\ revisions[r].number \in Nat
  /\ revisions2[m + 1].of = q
  /\ revisions2[m + 1].supersedes = rows[q].current
  /\ revisions2[m + 1].number = revisions[rows[q].current].number + 1
  /\ DOMAIN rows2 = DOMAIN rows /\ rows2[q].current = m + 1
  /\ \A i \in DOMAIN rows : i # q => rows2[i].current = rows[i].current

LEMMA HistoryExtended ==
  ASSUME NEW rows, NEW rows2, NEW revisions, NEW revisions2, NEW m \in Nat, NEW q,
         History(rows, revisions), Extended(rows, rows2, revisions, revisions2, m, q)
  PROVE  History(rows2, revisions2)
<1>0. /\ q \in DOMAIN rows
      /\ DOMAIN revisions = 1..m /\ DOMAIN revisions2 = 1..(m + 1)
      /\ \A r \in 1..m : revisions2[r] = revisions[r] /\ revisions[r].number \in Nat
      /\ revisions2[m + 1].of = q
      /\ revisions2[m + 1].supersedes = rows[q].current
      /\ revisions2[m + 1].number = revisions[rows[q].current].number + 1
      /\ DOMAIN rows2 = DOMAIN rows /\ rows2[q].current = m + 1
      /\ \A i \in DOMAIN rows : i # q => rows2[i].current = rows[i].current
  BY DEF Extended
<1> DEFINE c == rows[q].current
<1>1. c \in 1..m /\ revisions[c].of = q /\ c # 0
  BY <1>0 DEF History
<1>2. ASSUME NEW r \in 1..(m + 1) PROVE r \in 1..m \/ r = m + 1
  BY <1>0
<1>3. \A r \in 1..m : r # m + 1 /\ r \in 1..(m + 1) /\ revisions2[r].of = revisions[r].of
  BY <1>0
<1>4. \A r \in DOMAIN revisions2 : revisions2[r].of \in DOMAIN rows2
  BY <1>0, <1>2 DEF History
<1>5. \A i \in DOMAIN rows2 :
        rows2[i].current \in DOMAIN revisions2 /\ revisions2[rows2[i].current].of = i
  BY <1>0, <1>3 DEF History
<1>6. ASSUME NEW r \in DOMAIN revisions2, r # rows2[revisions2[r].of].current
      PROVE  \E next \in DOMAIN revisions2 : /\ revisions2[next].of = revisions2[r].of
                                             /\ revisions2[next].supersedes = r
  <2>1. r \in 1..m
    BY <1>0, <1>2, <1>6
  <2>2. CASE r = c
    BY <1>0, <1>1, <1>3, <2>2
  <2>3. CASE r # c
    <3>1. r # rows[revisions[r].of].current
      BY <1>0, <1>1, <1>6, <2>1, <2>3 DEF History
    <3>2. PICK next \in 1..m : revisions[next].of = revisions[r].of /\ revisions[next].supersedes = r
      BY <1>0, <2>1, <3>1 DEF History
    <3> QED
      BY <1>0, <1>3, <2>1, <3>2
  <2> QED
    BY <1>0, <2>2, <2>3
<1>7. ASSUME NEW r \in DOMAIN revisions2
      PROVE  IF revisions2[r].supersedes = 0 THEN revisions2[r].number = 1
             ELSE /\ revisions2[r].supersedes \in DOMAIN revisions2
                  /\ revisions2[revisions2[r].supersedes].of = revisions2[r].of
                  /\ revisions2[r].number = revisions2[revisions2[r].supersedes].number + 1
  <2>1. CASE r = m + 1
    BY <1>0, <1>1, <1>3, <2>1
  <2>2. CASE r \in 1..m
    BY <1>0, <1>3, <2>2 DEF History
  <2> QED
    BY <1>0, <1>2, <2>1, <2>2
<1>8. \A r \in 1..m : revisions[r].of = q => revisions[r].number < revisions2[m + 1].number
  BY <1>0, <1>1 DEF History
<1>9. ASSUME NEW r \in DOMAIN revisions2, NEW s \in DOMAIN revisions2,
             revisions2[r].of = revisions2[s].of, revisions2[r].number = revisions2[s].number
      PROVE  r = s
  BY <1>0, <1>2, <1>8, <1>9 DEF History
<1>10. ASSUME NEW r \in DOMAIN revisions2
       PROVE  revisions2[r].number <= revisions2[rows2[revisions2[r].of].current].number
  <2>1. CASE revisions2[r].of = q
    <3>1. CASE r = m + 1
      BY <1>0, <1>1, <3>1
    <3>2. CASE r \in 1..m
      BY <1>0, <1>1, <1>8, <2>1, <3>2
    <3> QED
      BY <1>0, <1>2, <3>1, <3>2
  <2>2. CASE revisions2[r].of # q
    BY <1>0, <1>2, <2>2 DEF History
  <2> QED
    BY <1>0, <2>1, <2>2
<1> QED
  BY <1>0, <1>4, <1>5, <1>6, <1>7, <1>9, <1>10 DEF History

(* New rows: n of them, each with its first revision.                      *)
Begun(rows, rows2, revisions, revisions2, k, m, n) ==
  /\ DOMAIN rows = 1..k /\ DOMAIN rows2 = 1..(k + n)
  /\ DOMAIN revisions = 1..m /\ DOMAIN revisions2 = 1..(m + n)
  /\ \A i \in 1..k : rows2[i] = rows[i]
  /\ \A r \in 1..m : revisions2[r] = revisions[r]
  /\ \A i \in 1..n : /\ rows2[k + i].current = m + i
                     /\ revisions2[m + i].of = k + i
                     /\ revisions2[m + i].number = 1
                     /\ revisions2[m + i].supersedes = 0

LEMMA HistoryBegun ==
  ASSUME NEW rows, NEW rows2, NEW revisions, NEW revisions2,
         NEW k \in Nat, NEW m \in Nat, NEW n \in Nat,
         History(rows, revisions), Begun(rows, rows2, revisions, revisions2, k, m, n)
  PROVE  History(rows2, revisions2)
<1>0. /\ DOMAIN rows = 1..k /\ DOMAIN rows2 = 1..(k + n)
      /\ DOMAIN revisions = 1..m /\ DOMAIN revisions2 = 1..(m + n)
      /\ \A i \in 1..k : rows2[i] = rows[i]
      /\ \A r \in 1..m : revisions2[r] = revisions[r]
      /\ \A i \in 1..n : /\ rows2[k + i].current = m + i
                         /\ revisions2[m + i].of = k + i
                         /\ revisions2[m + i].number = 1
                         /\ revisions2[m + i].supersedes = 0
  BY DEF Begun
<1> USE <1>0
<1>1. ASSUME NEW r \in 1..(m + n), r \notin 1..m
      PROVE  /\ r - m \in 1..n /\ revisions2[r].of = k + (r - m)
             /\ revisions2[r].number = 1 /\ revisions2[r].supersedes = 0
             /\ rows2[k + (r - m)].current = r
  <2>1. PICK i \in 1..n : r = m + i
    <3>1. r - m \in 1..n /\ r = m + (r - m)
      BY <1>1
    <3> QED
      BY <3>1
  <2> QED
    BY <2>1
<1>2. ASSUME NEW i \in 1..(k + n), i \notin 1..k
      PROVE  i - k \in 1..n /\ rows2[i].current = m + (i - k) /\ revisions2[m + (i - k)].of = i
  <2>1. PICK j \in 1..n : i = k + j
    <3>1. i - k \in 1..n /\ i = k + (i - k)
      BY <1>2
    <3> QED
      BY <3>1
  <2> QED
    BY <2>1
<1>3. \A r \in 1..m : r \in 1..(m + n)
  OBVIOUS
<1>4. \A i \in 1..k : i \in 1..(k + n)
  OBVIOUS
<1>5. ASSUME NEW r \in DOMAIN revisions2 PROVE revisions2[r].of \in DOMAIN rows2
  <2>1. CASE r \in 1..m
    BY <1>4, <2>1 DEF History
  <2>2. CASE r \notin 1..m
    BY <1>1, <2>2
  <2> QED
    BY <2>1, <2>2
<1>6. ASSUME NEW i \in DOMAIN rows2
      PROVE  rows2[i].current \in DOMAIN revisions2 /\ revisions2[rows2[i].current].of = i
  <2>1. CASE i \in 1..k
    BY <1>3, <2>1 DEF History
  <2>2. CASE i \notin 1..k
    BY <1>2, <2>2
  <2> QED
    BY <2>1, <2>2
<1>7. ASSUME NEW r \in DOMAIN revisions2, r # rows2[revisions2[r].of].current
      PROVE  \E next \in DOMAIN revisions2 : /\ revisions2[next].of = revisions2[r].of
                                             /\ revisions2[next].supersedes = r
  <2>1. r \in 1..m
    BY <1>1, <1>7
  <2>2. r # rows[revisions[r].of].current
    BY <1>7, <2>1 DEF History
  <2>3. PICK next \in 1..m : revisions[next].of = revisions[r].of /\ revisions[next].supersedes = r
    BY <2>1, <2>2 DEF History
  <2> QED
    BY <1>3, <2>1, <2>3
<1>8. ASSUME NEW r \in DOMAIN revisions2
      PROVE  IF revisions2[r].supersedes = 0 THEN revisions2[r].number = 1
             ELSE /\ revisions2[r].supersedes \in DOMAIN revisions2
                  /\ revisions2[revisions2[r].supersedes].of = revisions2[r].of
                  /\ revisions2[r].number = revisions2[revisions2[r].supersedes].number + 1
  <2>1. CASE r \in 1..m
    BY <1>3, <2>1 DEF History
  <2>2. CASE r \notin 1..m
    BY <1>1, <2>2
  <2> QED
    BY <2>1, <2>2
<1>9. ASSUME NEW r \in DOMAIN revisions2, NEW s \in DOMAIN revisions2,
             revisions2[r].of = revisions2[s].of, revisions2[r].number = revisions2[s].number
      PROVE  r = s
  <2>1. CASE r \in 1..m /\ s \in 1..m
    BY <1>9, <2>1 DEF History
  <2>2. CASE r \notin 1..m /\ s \notin 1..m
    BY <1>1, <1>9, <2>2
  <2>3. \A x \in 1..m : revisions[x].of \in 1..k
    BY DEF History
  <2>4. CASE r \in 1..m <=> s \notin 1..m
    BY <1>1, <1>9, <2>3, <2>4
  <2> QED
    BY <2>1, <2>2, <2>4
<1>10. ASSUME NEW r \in DOMAIN revisions2
       PROVE  revisions2[r].number <= revisions2[rows2[revisions2[r].of].current].number
  <2>1. CASE r \in 1..m
    BY <2>1 DEF History
  <2>2. CASE r \notin 1..m
    BY <1>1, <2>2
  <2> QED
    BY <2>1, <2>2
<1> QED
  BY <1>5, <1>6, <1>7, <1>8, <1>9, <1>10 DEF History

-----------------------------------------------------------------------------
(* The inductive invariant. Beside types and histories it says what is     *)
(* right about a row of a job and of an answer, and what a request knows   *)
(* where it is: q is a request, the rest are the tables.                   *)
RevisionRow == [of : Nat \ {0}, number : Nat \ {0}, supersedes : Nat]
AnswerRevisionRow == [of : Nat \ {0}, number : Nat \ {0}, supersedes : Nat,
                      claims : Seq(StoredClaim)]
Calls == [pc : Phases, row : Nat, rev : Nat, status : Reviews,
          draft : PlanDrafts \cup AnswerDrafts \cup {NoDraft}]
Drafts(kind) == IF kind = "QUESTION_PLAN" THEN PlanDrafts ELSE AnswerDrafts

(* Row p (of a plan or of an answer) was made from job j.                  *)
MadeFrom(j, kind, p, ps, as) ==
  IF kind = "QUESTION_PLAN" THEN p \in DOMAIN ps /\ ps[p].job = j
  ELSE p \in DOMAIN as /\ as[p].job = j

JobIsRight(j, row, ps, qs, as) ==
  /\ row.kind = "ANSWER_GENERATION" => row.question \in DOMAIN qs
  /\ row.state = "SUCCEEDED" /\ row.made = 0 => row.draft \in Drafts(row.kind)
  /\ row.made # 0 => row.state = "SUCCEEDED" /\ MadeFrom(j, row.kind, row.made, ps, as)

Stands(row, revisions) ==
  /\ row.review = "CONFIRMED" => row.verification = "VERIFIED"
  /\ row.verification = "VERIFIED" =>
       LET claims == revisions[row.current].claims
       IN /\ claims # <<>>
          /\ \A c \in DOMAIN claims : claims[c].type = "SUPPORTED" /\ claims[c].evidence # {}

Knows(q, js, ps, qs, as, revisions) ==
  /\ q.pc \in {"MATERIALIZING", "RECORDING"} => q.row \in DOMAIN js /\ js[q.row].state = "SUCCEEDED"
  /\ q.pc = "MATERIALIZING" => q.draft \in Drafts(js[q.row].kind)
  /\ q.pc = "RECORDING" => MadeFrom(q.row, js[q.row].kind, q.rev, ps, as)
  /\ q.pc \in {"ASKING", "EDITING_QUESTION", "REVIEWING_QUESTION"} => q.row \in DOMAIN qs
  /\ q.pc \in {"EDITING_ANSWER", "REVIEWING_ANSWER"} => q.row \in DOMAIN as
  /\ q.pc = "REVIEWING_ANSWER" =>
       /\ q.rev \in DOMAIN revisions
       /\ q.status = "CONFIRMED" /\ as[q.row].current = q.rev => as[q.row].verification = "VERIFIED"

TablesAreTyped ==
  /\ jobs \in Seq(Job) /\ plans \in Seq([job : Nat \ {0}])
  /\ questions \in Seq(Question) /\ questionRevisions \in Seq(RevisionRow)
  /\ answers \in Seq(Answer) /\ answerRevisions \in Seq(AnswerRevisionRow)
JobsAreRight == \A j \in DOMAIN jobs : JobIsRight(j, jobs[j], plans, questions, answers)
AnswersStand == \A i \in DOMAIN answers : Stands(answers[i], answerRevisions)

TablesInv == /\ TablesAreTyped /\ JobsAreRight /\ AnswersStand
             /\ History(questions, questionRevisions) /\ History(answers, answerRevisions)
ProcessesInv ==
  /\ api \in [Apis -> Calls]
  /\ \A a \in Apis : Knows(api[a], jobs, plans, questions, answers, answerRevisions)
  /\ workers \in [Workers -> DOMAIN jobs \cup {0}]

WorkflowInv == TablesInv /\ ProcessesInv

LEMMA WorkflowInvImplies ==
  ASSUME WorkflowInv
  PROVE  /\ TypeOK /\ HistoryIsAChain /\ ConfirmedAnswersStandOnEvidence
         /\ ResultsNameWhatTheyMade
<1>1. jobs \in Seq(Job) /\ DOMAIN jobs \subseteq Nat
  BY LenProperties DEF WorkflowInv, TablesInv, TablesAreTyped
<1>2. TypeOK
  <2>1. workers \in [Workers -> Nat]
    BY <1>1 DEF WorkflowInv, ProcessesInv
  <2> QED
    BY <2>1 DEF WorkflowInv, TablesInv, TablesAreTyped, ProcessesInv, TypeOK, Calls, RevisionRow,
       AnswerRevisionRow
<1>3. HistoryIsAChain
  BY HistoryMakesAChain DEF WorkflowInv, TablesInv, HistoryIsAChain
<1>4. ConfirmedAnswersStandOnEvidence
  BY DEF WorkflowInv, TablesInv, AnswersStand, Stands, ConfirmedAnswersStandOnEvidence, Grounded,
     Range
<1>5. ResultsNameWhatTheyMade
  BY DEF WorkflowInv, TablesInv, JobsAreRight, JobIsRight, MadeFrom, ResultsNameWhatTheyMade
<1> QED
  BY <1>2, <1>3, <1>4, <1>5

LEMMA WorkflowInvInit == Init => WorkflowInv
<1> SUFFICES ASSUME Init PROVE WorkflowInv
  OBVIOUS
<1>1. Idle \in Calls /\ Idle.pc = "IDLE"
  BY DEF Idle, Call, Calls, Phases, Reviews
<1>2. ProcessesInv
  BY <1>1 DEF Init, ProcessesInv, Knows
<1>3. History(questions, questionRevisions) /\ History(answers, answerRevisions)
  BY DEF Init, History
<1> QED
  BY <1>2, <1>3 DEF Init, WorkflowInv, TablesInv, TablesAreTyped, JobsAreRight, AnswersStand

-----------------------------------------------------------------------------
(* Tables only grow, and what a request knows stays true as they do. An    *)
(* answer is verified again only with a revision nobody has seen.          *)
Grown ==
  /\ \A j \in DOMAIN jobs : /\ j \in DOMAIN jobs' /\ jobs'[j].kind = jobs[j].kind
                            /\ jobs[j].state = "SUCCEEDED" => jobs'[j].state = "SUCCEEDED"
  /\ \A p \in DOMAIN plans : p \in DOMAIN plans' /\ plans'[p].job = plans[p].job
  /\ DOMAIN questions \subseteq DOMAIN questions'
  /\ \A i \in DOMAIN answers :
       /\ i \in DOMAIN answers' /\ answers'[i].job = answers[i].job
       /\ \/ /\ answers'[i].current = answers[i].current
             /\ answers'[i].verification = answers[i].verification
          \/ answers'[i].current \notin DOMAIN answerRevisions
  /\ DOMAIN answerRevisions \subseteq DOMAIN answerRevisions'

LEMMA StillMadeFrom ==
  ASSUME Grown, NEW j \in Nat, NEW kind \in {"QUESTION_PLAN", "ANSWER_GENERATION"}, NEW p \in Nat,
         MadeFrom(j, kind, p, plans, answers)
  PROVE  MadeFrom(j, kind, p, plans', answers')
BY DEF Grown, MadeFrom

LEMMA StillKnows ==
  ASSUME Grown, jobs \in Seq(Job), NEW q \in Calls,
         Knows(q, jobs, plans, questions, answers, answerRevisions)
  PROVE  Knows(q, jobs', plans', questions', answers', answerRevisions')
<1>1. q.row \in Nat /\ q.rev \in Nat
  BY DEF Calls
<1>2. \A j \in DOMAIN jobs : jobs[j].kind \in {"QUESTION_PLAN", "ANSWER_GENERATION"}
  <2>1. \A j \in DOMAIN jobs : jobs[j] \in Job
    BY LenProperties
  <2> QED
    BY <2>1 DEF Job
<1>3. ASSUME q.pc \in {"MATERIALIZING", "RECORDING"}
      PROVE  /\ q.row \in DOMAIN jobs' /\ jobs'[q.row].state = "SUCCEEDED"
             /\ jobs'[q.row].kind = jobs[q.row].kind /\ q.row \in DOMAIN jobs
  BY <1>3 DEF Grown, Knows
<1>4. q.pc = "RECORDING" => MadeFrom(q.row, jobs'[q.row].kind, q.rev, plans', answers')
  BY <1>1, <1>2, <1>3, StillMadeFrom DEF Knows
<1>5. q.pc = "MATERIALIZING" => q.draft \in Drafts(jobs'[q.row].kind)
  BY <1>3 DEF Knows
<1>6. q.pc = "REVIEWING_ANSWER" =>
        /\ q.rev \in DOMAIN answerRevisions'
        /\ q.status = "CONFIRMED" /\ answers'[q.row].current = q.rev =>
             answers'[q.row].verification = "VERIFIED"
  BY DEF Grown, Knows
<1>7. q.pc \in {"ASKING", "EDITING_QUESTION", "REVIEWING_QUESTION"} => q.row \in DOMAIN questions'
  BY DEF Grown, Knows
<1>8. q.pc \in {"EDITING_ANSWER", "REVIEWING_ANSWER"} => q.row \in DOMAIN answers'
  BY DEF Grown, Knows
<1> QED
  BY <1>3, <1>4, <1>5, <1>6, <1>7, <1>8 DEF Knows

(* A step of one API process: every other one knows what it knew.          *)
LEMMA ApiSteps ==
  ASSUME WorkflowInv, Grown, NEW a \in Apis, NEW c \in Calls,
         Knows(c, jobs', plans', questions', answers', answerRevisions'),
         api' = [api EXCEPT ![a] = c], workers' = workers
  PROVE  ProcessesInv'
<1>1. api \in [Apis -> Calls] /\ jobs \in Seq(Job) /\ workers \in [Workers -> DOMAIN jobs \cup {0}]
  BY DEF WorkflowInv, TablesInv, TablesAreTyped, ProcessesInv
<1>2. ASSUME NEW b \in Apis
      PROVE  Knows(api'[b], jobs', plans', questions', answers', answerRevisions')
  <2>1. CASE b = a
    BY <1>1, <2>1
  <2>2. CASE b # a
    <3>1. api'[b] = api[b] /\ api[b] \in Calls
      BY <1>1, <2>2
    <3>2. Knows(api[b], jobs, plans, questions, answers, answerRevisions)
      BY DEF WorkflowInv, ProcessesInv
    <3> QED
      BY <1>1, <3>1, <3>2, StillKnows
  <2> QED
    BY <2>1, <2>2
<1>3. DOMAIN jobs \subseteq DOMAIN jobs'
  BY DEF Grown
<1>4. workers' \in [Workers -> DOMAIN jobs' \cup {0}]
  BY <1>1, <1>3
<1>5. api' \in [Apis -> Calls]
  BY <1>1
<1> QED
  BY <1>2, <1>4, <1>5 DEF ProcessesInv

LEMMA ApiEnds ==
  ASSUME WorkflowInv, Grown, NEW a \in Apis, Ends(a), workers' = workers
  PROVE  ProcessesInv'
<1>1. Idle \in Calls /\ Idle.pc = "IDLE"
  BY DEF Idle, Call, Calls, Phases, Reviews
<1>2. Knows(Idle, jobs', plans', questions', answers', answerRevisions')
  BY <1>1 DEF Knows
<1> QED
  BY <1>1, <1>2, ApiSteps DEF Ends

LEMMA NothingWritten ==
  ASSUME WorkflowInv, UNCHANGED db
  PROVE  TablesInv' /\ Grown
BY DEF WorkflowInv, TablesInv, TablesAreTyped, JobsAreRight, AnswersStand, db, Grown

-----------------------------------------------------------------------------
(* The jobs table.                                                         *)
LEMMA StillRight ==
  ASSUME Grown, NEW j \in Nat, NEW row \in Job, JobIsRight(j, row, plans, questions, answers)
  PROVE  JobIsRight(j, row, plans', questions', answers')
<1>1. row.kind \in {"QUESTION_PLAN", "ANSWER_GENERATION"} /\ row.made \in Nat
  BY DEF Job
<1> QED
  BY <1>1, StillMadeFrom DEF JobIsRight, Grown

LEMMA JobRows ==
  ASSUME WorkflowInv
  PROVE  /\ jobs \in Seq(Job) /\ DOMAIN jobs \subseteq Nat \ {0}
         /\ \A j \in DOMAIN jobs : jobs[j] \in Job /\ JobIsRight(j, jobs[j], plans, questions, answers)
<1>1. jobs \in Seq(Job)
  BY DEF WorkflowInv, TablesInv, TablesAreTyped
<1>2. DOMAIN jobs = 1..Len(jobs) /\ Len(jobs) \in Nat /\ jobs \in [1..Len(jobs) -> Job]
  BY <1>1, LenProperties
<1> QED
  BY <1>1, <1>2 DEF WorkflowInv, TablesInv, JobsAreRight

(* Rows of other tables are written: the jobs are as right as before.      *)
LEMMA JobsStayRight ==
  ASSUME WorkflowInv, Grown, jobs' = jobs
  PROVE  JobsAreRight'
BY JobRows, StillRight DEF JobsAreRight

LEMMA JobAdded ==
  ASSUME WorkflowInv, NEW row \in Job, row.made = 0, row.state = "QUEUED",
         row.kind = "ANSWER_GENERATION" => row.question \in DOMAIN questions,
         jobs' = WithJob(row),
         UNCHANGED <<plans, questions, questionRevisions, answers, answerRevisions>>
  PROVE  TablesInv' /\ Grown
<1>1. CASE jobs' = jobs
  BY <1>1, NothingWritten DEF db
<1>2. CASE jobs' = Append(jobs, row)
  <2> DEFINE n == Len(jobs)
  <2>1. /\ jobs' \in Seq(Job) /\ DOMAIN jobs' = 1..(n + 1) /\ DOMAIN jobs = 1..n /\ n \in Nat
        /\ jobs'[n + 1] = row /\ \A k \in DOMAIN jobs : jobs'[k] = jobs[k]
    BY <1>2, JobRows, RowAdded
  <2>2. Grown
    BY <2>1 DEF Grown
  <2>3. \A j \in DOMAIN jobs' : JobIsRight(j, jobs'[j], plans, questions, answers)
    <3>1. JobIsRight(n + 1, row, plans, questions, answers)
      BY DEF JobIsRight
    <3>2. \A j \in 1..(n + 1) : j \in 1..n \/ j = n + 1
      BY <2>1
    <3> QED
      BY <2>1, <3>1, <3>2, JobRows
  <2> QED
    BY <2>1, <2>2, <2>3 DEF WorkflowInv, TablesInv, TablesAreTyped, JobsAreRight, AnswersStand
<1> QED
  BY <1>1, <1>2 DEF WithJob

LEMMA JobChanged ==
  ASSUME WorkflowInv, NEW j \in DOMAIN jobs, NEW row \in Job,
         row.kind = jobs[j].kind, jobs[j].state = "SUCCEEDED" => row.state = "SUCCEEDED",
         JobIsRight(j, row, plans, questions, answers),
         jobs' = [jobs EXCEPT ![j] = row],
         UNCHANGED <<plans, questions, questionRevisions, answers, answerRevisions>>
  PROVE  TablesInv' /\ Grown /\ DOMAIN jobs' = DOMAIN jobs
<1>1. /\ jobs' \in Seq(Job) /\ DOMAIN jobs' = DOMAIN jobs
      /\ jobs'[j] = row /\ \A k \in DOMAIN jobs : k # j => jobs'[k] = jobs[k]
  BY JobRows, RowChanged
<1>2. Grown
  BY <1>1 DEF Grown
<1>3. \A k \in DOMAIN jobs' : JobIsRight(k, jobs'[k], plans, questions, answers)
  BY <1>1, JobRows
<1> QED
  BY <1>1, <1>2, <1>3 DEF WorkflowInv, TablesInv, TablesAreTyped, JobsAreRight, AnswersStand

LEMMA QueueSteps ==
  ASSUME WorkflowInv, NEW a \in Apis, EnqueuePlan(a) \/ EnqueueAnswer(a)
  PROVE  WorkflowInv'
<1>1. ASSUME NEW kind \in {"QUESTION_PLAN", "ANSWER_GENERATION"}, NEW key \in Keys,
             NEW q \in Nat, NEW r \in Nat,
             kind = "ANSWER_GENERATION" => q \in DOMAIN questions,
             jobs' = WithJob(NewJob(kind, key, q, r)),
             UNCHANGED <<plans, questions, questionRevisions, answers, answerRevisions>>
      PROVE  TablesInv' /\ Grown
  <2> DEFINE row == NewJob(kind, key, q, r)
  <2>1. /\ row \in Job /\ row.made = 0 /\ row.state = "QUEUED" /\ row.kind = kind
        /\ row.question = q
    BY DEF NewJob, Job
  <2>2. jobs' = WithJob(row)
    BY <1>1
  <2> HIDE DEF row
  <2> QED
    BY <1>1, <2>1, <2>2, JobAdded
<1>2. CASE EnqueuePlan(a)
  <2>1. PICK key \in Keys : jobs' = WithJob(NewJob("QUESTION_PLAN", key, 0, 0))
    BY <1>2 DEF EnqueuePlan
  <2>2. TablesInv' /\ Grown
    BY <1>1, <1>2, <2>1 DEF EnqueuePlan
  <2>3. api[a] \in Calls /\ Knows(api[a], jobs, plans, questions, answers, answerRevisions)
    BY DEF WorkflowInv, ProcessesInv
  <2>4. api' = [api EXCEPT ![a] = api[a]] /\ workers' = workers
    BY <1>2 DEF EnqueuePlan, WorkflowInv, ProcessesInv
  <2>5. Knows(api[a], jobs', plans', questions', answers', answerRevisions')
    BY <2>2, <2>3, JobRows, StillKnows
  <2>6. ProcessesInv'
    BY <2>2, <2>3, <2>4, <2>5, ApiSteps
  <2> QED
    BY <2>2, <2>6 DEF WorkflowInv
<1>3. CASE EnqueueAnswer(a)
  <2>1. /\ api[a].row \in Nat /\ api[a].rev \in Nat /\ api[a].row \in DOMAIN questions
    BY <1>3 DEF EnqueueAnswer, WorkflowInv, ProcessesInv, Calls, Knows
  <2>2. TablesInv' /\ Grown
    BY <1>1, <1>3, <2>1 DEF EnqueueAnswer
  <2> QED
    BY <1>3, <2>2, ApiEnds DEF EnqueueAnswer, WorkflowInv
<1> QED
  BY <1>2, <1>3

(* Workers.                                                                *)
LEMMA WorkerSteps ==
  ASSUME WorkflowInv, Grown, DOMAIN jobs' = DOMAIN jobs, NEW w \in Workers,
         NEW j \in DOMAIN jobs \cup {0}, workers' = [workers EXCEPT ![w] = j], api' = api
  PROVE  ProcessesInv'
<1>1. /\ api \in [Apis -> Calls] /\ workers \in [Workers -> DOMAIN jobs \cup {0}]
      /\ \A a \in Apis : Knows(api[a], jobs, plans, questions, answers, answerRevisions)
  BY DEF WorkflowInv, ProcessesInv
<1>2. \A a \in Apis : Knows(api[a], jobs', plans', questions', answers', answerRevisions')
  BY <1>1, JobRows, StillKnows
<1>3. workers' \in [Workers -> DOMAIN jobs' \cup {0}]
  BY <1>1
<1> QED
  BY <1>1, <1>2, <1>3 DEF ProcessesInv

LEMMA OutputsAreDrafts ==
  ASSUME NEW kind \in {"QUESTION_PLAN", "ANSWER_GENERATION"}, NEW draft \in Outputs(kind)
  PROVE  draft \in Drafts(kind)
BY QuestionWorkflowAssumption DEF Outputs, Drafts

LEMMA ClaimStep ==
  ASSUME WorkflowInv, NEW w \in Workers, Claim(w)
  PROVE  WorkflowInv'
<1>1. PICK j \in DOMAIN jobs :
        /\ jobs[j].state = "QUEUED"
        /\ jobs' = [jobs EXCEPT ![j] = [jobs[j] EXCEPT !.state = "RUNNING", !.worker = w]]
        /\ workers' = [workers EXCEPT ![w] = j]
  BY DEF Claim, Claimable
<1> DEFINE row == [jobs[j] EXCEPT !.state = "RUNNING", !.worker = w]
<1>2. jobs[j] \in Job /\ JobIsRight(j, jobs[j], plans, questions, answers)
  BY JobRows
<1>3. /\ row \in Job /\ row.kind = jobs[j].kind /\ row.state = "RUNNING"
      /\ row.made = jobs[j].made /\ row.question = jobs[j].question
  BY <1>2 DEF Job
<1>4. jobs' = [jobs EXCEPT ![j] = row]
  BY <1>1
<1> HIDE DEF row
<1>5. JobIsRight(j, row, plans, questions, answers)
  BY <1>1, <1>2, <1>3 DEF JobIsRight
<1>6. TablesInv' /\ Grown /\ DOMAIN jobs' = DOMAIN jobs
  BY <1>1, <1>3, <1>4, <1>5, JobChanged DEF Claim
<1> QED
  BY <1>1, <1>6, WorkerSteps DEF Claim, WorkflowInv

LEMMA FinishStep ==
  ASSUME WorkflowInv, NEW w \in Workers, FinishJob(w)
  PROVE  WorkflowInv'
<1> DEFINE j == workers[w]
<1>1. j \in DOMAIN jobs /\ jobs[j].state = "RUNNING"
  BY DEF FinishJob, WorkflowInv, ProcessesInv
<1>2. jobs[j] \in Job /\ JobIsRight(j, jobs[j], plans, questions, answers)
  BY <1>1, JobRows
<1>3. jobs[j].made = 0
  BY <1>1, <1>2 DEF JobIsRight
<1>4. \E row \in Job : /\ row.kind = jobs[j].kind /\ row.question = jobs[j].question /\ row.made = 0
                       /\ row.state = "SUCCEEDED" => row.draft \in Drafts(row.kind)
                       /\ jobs' = [jobs EXCEPT ![j] = row]
  <2>1. CASE \E draft \in Outputs(jobs[j].kind) :
               jobs' = [jobs EXCEPT ![j] = [jobs[j] EXCEPT !.state = "SUCCEEDED", !.draft = draft]]
    <3>1. PICK draft \in Outputs(jobs[j].kind) :
            jobs' = [jobs EXCEPT ![j] = [jobs[j] EXCEPT !.state = "SUCCEEDED", !.draft = draft]]
      BY <2>1
    <3> DEFINE row == [jobs[j] EXCEPT !.state = "SUCCEEDED", !.draft = draft]
    <3>2. draft \in Drafts(jobs[j].kind) /\ draft \in PlanDrafts \cup AnswerDrafts \cup {NoDraft}
      <4>1. jobs[j].kind \in {"QUESTION_PLAN", "ANSWER_GENERATION"}
        BY <1>2 DEF Job
      <4>2. draft \in Drafts(jobs[j].kind)
        BY <4>1, OutputsAreDrafts
      <4> QED
        BY <4>2 DEF Drafts
    <3>3. /\ row \in Job /\ row.kind = jobs[j].kind /\ row.question = jobs[j].question
          /\ row.made = 0 /\ row.draft = draft
      BY <1>2, <1>3, <3>2 DEF Job
    <3> QED
      BY <3>1, <3>2, <3>3
  <2>2. CASE jobs' = [jobs EXCEPT ![j] = [jobs[j] EXCEPT !.state = "FAILED"]]
    <3> DEFINE row == [jobs[j] EXCEPT !.state = "FAILED"]
    <3>1. /\ row \in Job /\ row.kind = jobs[j].kind /\ row.question = jobs[j].question
          /\ row.made = 0 /\ row.state = "FAILED"
      BY <1>2, <1>3 DEF Job
    <3> QED
      BY <2>2, <3>1
  <2> QED
    BY <2>1, <2>2 DEF FinishJob
<1>5. PICK row \in Job : /\ row.kind = jobs[j].kind /\ row.question = jobs[j].question /\ row.made = 0
                         /\ row.state = "SUCCEEDED" => row.draft \in Drafts(row.kind)
                         /\ jobs' = [jobs EXCEPT ![j] = row]
  BY <1>4
<1>6. JobIsRight(j, row, plans, questions, answers)
  BY <1>2, <1>5 DEF JobIsRight
<1>7. UNCHANGED <<plans, questions, questionRevisions, answers, answerRevisions, api>>
  BY DEF FinishJob
<1>8. TablesInv' /\ Grown /\ DOMAIN jobs' = DOMAIN jobs
  BY <1>1, <1>5, <1>6, <1>7, JobChanged
<1> QED
  BY <1>7, <1>8, WorkerSteps DEF FinishJob, WorkflowInv

LEMMA WorkerCrashStep ==
  ASSUME WorkflowInv, NEW w \in Workers, WorkerCrash(w)
  PROVE  WorkflowInv'
<1>1. TablesInv' /\ Grown /\ jobs' = jobs
  BY NothingWritten DEF WorkerCrash, db
<1> QED
  BY <1>1, WorkerSteps DEF WorkerCrash, WorkflowInv

-----------------------------------------------------------------------------
(* The other tables.                                                       *)
LEMMA QuestionRows ==
  ASSUME WorkflowInv
  PROVE  /\ questions \in Seq(Question) /\ DOMAIN questions \subseteq Nat \ {0}
         /\ \A q \in DOMAIN questions : questions[q] \in Question
         /\ questionRevisions \in Seq(RevisionRow)
         /\ DOMAIN questionRevisions = 1..Len(questionRevisions) /\ Len(questionRevisions) \in Nat
         /\ \A r \in DOMAIN questionRevisions : questionRevisions[r] \in RevisionRow
<1>1. questions \in Seq(Question) /\ questionRevisions \in Seq(RevisionRow)
  BY DEF WorkflowInv, TablesInv, TablesAreTyped
<1>2. /\ DOMAIN questions = 1..Len(questions) /\ Len(questions) \in Nat
      /\ questions \in [1..Len(questions) -> Question]
  BY <1>1, LenProperties
<1>3. /\ DOMAIN questionRevisions = 1..Len(questionRevisions) /\ Len(questionRevisions) \in Nat
      /\ questionRevisions \in [1..Len(questionRevisions) -> RevisionRow]
  BY <1>1, LenProperties
<1> QED
  BY <1>1, <1>2, <1>3

LEMMA AnswerRows ==
  ASSUME WorkflowInv
  PROVE  /\ answers \in Seq(Answer) /\ DOMAIN answers \subseteq Nat \ {0}
         /\ \A i \in DOMAIN answers : /\ answers[i] \in Answer
                                      /\ Stands(answers[i], answerRevisions)
                                      /\ answers[i].current \in DOMAIN answerRevisions
         /\ answerRevisions \in Seq(AnswerRevisionRow)
         /\ DOMAIN answerRevisions = 1..Len(answerRevisions) /\ Len(answerRevisions) \in Nat
         /\ \A r \in DOMAIN answerRevisions : answerRevisions[r] \in AnswerRevisionRow
<1>1. answers \in Seq(Answer) /\ answerRevisions \in Seq(AnswerRevisionRow)
  BY DEF WorkflowInv, TablesInv, TablesAreTyped
<1>2. /\ DOMAIN answers = 1..Len(answers) /\ Len(answers) \in Nat
      /\ answers \in [1..Len(answers) -> Answer]
  BY <1>1, LenProperties
<1>3. /\ DOMAIN answerRevisions = 1..Len(answerRevisions) /\ Len(answerRevisions) \in Nat
      /\ answerRevisions \in [1..Len(answerRevisions) -> AnswerRevisionRow]
  BY <1>1, LenProperties
<1> QED
  BY <1>1, <1>2, <1>3 DEF WorkflowInv, TablesInv, AnswersStand, History

-----------------------------------------------------------------------------
(* Steps that read, and calls that end having written nothing.             *)
LEMMA ReadingStep ==
  ASSUME WorkflowInv, NEW a \in Apis, NEW c \in Calls,
         Knows(c, jobs, plans, questions, answers, answerRevisions),
         Starts(a, c), UNCHANGED <<db, workers>>
  PROVE  WorkflowInv'
<1>1. TablesInv' /\ Grown
  BY NothingWritten
<1>2. Knows(c, jobs', plans', questions', answers', answerRevisions')
  BY DEF db
<1>3. ProcessesInv'
  BY <1>1, <1>2, ApiSteps DEF Starts
<1> QED
  BY <1>1, <1>3 DEF WorkflowInv

LEMMA ReadingSteps ==
  ASSUME WorkflowInv, NEW a \in Apis,
         \/ \E q \in DOMAIN questions : AskQuestion(a, q) \/ OpenQuestion(a, q)
         \/ \E i \in DOMAIN answers : OpenAnswer(a, i)
         \/ \E j \in DOMAIN jobs : ReadJob(a, j)
         \/ \E q \in DOMAIN questions, status \in {"CONFIRMED", "REJECTED"} :
              ReviewQuestion(a, q, status)
         \/ \E i \in DOMAIN answers, status \in {"CONFIRMED", "REJECTED"} :
              ReviewAnswer(a, i, status)
  PROVE  WorkflowInv'
<1>1. ASSUME NEW q \in DOMAIN questions, AskQuestion(a, q) \/ OpenQuestion(a, q)
      PROVE  WorkflowInv'
  <2>1. ASSUME NEW pc \in {"ASKING", "EDITING_QUESTION"},
               Starts(a, Call(pc, q, questions[q].current)), UNCHANGED <<db, workers>>
        PROVE  WorkflowInv'
    <3> DEFINE c == Call(pc, q, questions[q].current)
    <3>1. c \in Calls /\ c.pc = pc /\ c.row = q
      BY QuestionRows DEF Call, Calls, Phases, Reviews, Question
    <3>2. Starts(a, c)
      BY <2>1
    <3> HIDE DEF c
    <3>3. Knows(c, jobs, plans, questions, answers, answerRevisions)
      BY <3>1 DEF Knows
    <3> QED
      BY <2>1, <3>1, <3>2, <3>3, ReadingStep
  <2> QED
    BY <1>1, <2>1 DEF AskQuestion, OpenQuestion
<1>2. ASSUME NEW i \in DOMAIN answers, OpenAnswer(a, i)
      PROVE  WorkflowInv'
  <2> DEFINE c == Call("EDITING_ANSWER", i, answers[i].current)
  <2>1. c \in Calls /\ c.pc = "EDITING_ANSWER" /\ c.row = i
    BY AnswerRows DEF Call, Calls, Phases, Reviews, Answer
  <2>2. Starts(a, c) /\ UNCHANGED <<db, workers>>
    BY <1>2 DEF OpenAnswer
  <2> HIDE DEF c
  <2>3. Knows(c, jobs, plans, questions, answers, answerRevisions)
    BY <2>1 DEF Knows
  <2> QED
    BY <2>1, <2>2, <2>3, ReadingStep
<1>3. ASSUME NEW j \in DOMAIN jobs, ReadJob(a, j)
      PROVE  WorkflowInv'
  <2> DEFINE c == [Call("MATERIALIZING", j, 0) EXCEPT !.draft = jobs[j].draft]
  <2>1. /\ jobs[j] \in Job /\ jobs[j].state = "SUCCEEDED" /\ j \in Nat
        /\ jobs[j].draft \in Drafts(jobs[j].kind)
    BY <1>3, JobRows DEF ReadJob, JobIsRight
  <2>2. c \in Calls /\ c.pc = "MATERIALIZING" /\ c.row = j /\ c.draft = jobs[j].draft
    BY <2>1 DEF Call, Calls, Phases, Reviews, Job
  <2>3. Starts(a, c) /\ UNCHANGED <<db, workers>>
    BY <1>3 DEF ReadJob
  <2> HIDE DEF c
  <2>4. Knows(c, jobs, plans, questions, answers, answerRevisions)
    BY <2>1, <2>2 DEF Knows
  <2> QED
    BY <2>2, <2>3, <2>4, ReadingStep
<1>4. ASSUME NEW q \in DOMAIN questions, NEW status \in {"CONFIRMED", "REJECTED"},
             ReviewQuestion(a, q, status)
      PROVE  WorkflowInv'
  <2> DEFINE c == [Call("REVIEWING_QUESTION", q, questions[q].current) EXCEPT !.status = status]
  <2>1. c \in Calls /\ c.pc = "REVIEWING_QUESTION" /\ c.row = q
    BY QuestionRows DEF Call, Calls, Phases, Reviews, Question
  <2>2. Starts(a, c) /\ UNCHANGED <<db, workers>>
    BY <1>4 DEF ReviewQuestion
  <2> HIDE DEF c
  <2>3. Knows(c, jobs, plans, questions, answers, answerRevisions)
    BY <2>1 DEF Knows
  <2> QED
    BY <2>1, <2>2, <2>3, ReadingStep
<1>5. ASSUME NEW i \in DOMAIN answers, NEW status \in {"CONFIRMED", "REJECTED"},
             ReviewAnswer(a, i, status)
      PROVE  WorkflowInv'
  <2> DEFINE c == [Call("REVIEWING_ANSWER", i, answers[i].current) EXCEPT !.status = status]
  <2>1. /\ c \in Calls /\ c.pc = "REVIEWING_ANSWER" /\ c.row = i /\ c.status = status
        /\ c.rev = answers[i].current
    BY AnswerRows DEF Call, Calls, Phases, Reviews, Answer
  <2>2. Starts(a, c) /\ UNCHANGED <<db, workers>>
    BY <1>5 DEF ReviewAnswer
  <2>3. status = "CONFIRMED" => answers[i].verification = "VERIFIED"
    BY <1>5 DEF ReviewAnswer, MayBecome
  <2> HIDE DEF c
  <2>4. Knows(c, jobs, plans, questions, answers, answerRevisions)
    BY <2>1, <2>3, AnswerRows DEF Knows
  <2> QED
    BY <2>1, <2>2, <2>4, ReadingStep
<1> QED
  BY <1>1, <1>2, <1>3, <1>4, <1>5

LEMMA EndingSteps ==
  ASSUME WorkflowInv, NEW a \in Apis,
         MaterializeRefused(a) \/ EditRefused(a) \/ DecisionRefused(a) \/ ApiCrash(a)
  PROVE  WorkflowInv'
<1>1. Ends(a) /\ UNCHANGED <<db, workers>>
  BY DEF MaterializeRefused, EditRefused, DecisionRefused, ApiCrash
<1> QED
  BY <1>1, NothingWritten, ApiEnds DEF WorkflowInv

LEMMA RecordStep ==
  ASSUME WorkflowInv, NEW a \in Apis, RecordResult(a)
  PROVE  WorkflowInv'
<1> DEFINE j == api[a].row
           p == api[a].rev
           row == [jobs[j] EXCEPT !.draft = NoDraft, !.made = p]
<1>1. api[a] \in Calls /\ Knows(api[a], jobs, plans, questions, answers, answerRevisions)
  BY DEF WorkflowInv, ProcessesInv
<1>2. /\ j \in DOMAIN jobs /\ p \in Nat /\ jobs[j].state = "SUCCEEDED"
      /\ MadeFrom(j, jobs[j].kind, p, plans, answers)
  BY <1>1 DEF RecordResult, Knows, Calls
<1>3. jobs[j] \in Job /\ JobIsRight(j, jobs[j], plans, questions, answers)
  BY <1>2, JobRows
<1>4. p # 0
  <2>1. DOMAIN plans \subseteq Nat \ {0}
    BY LenProperties DEF WorkflowInv, TablesInv, TablesAreTyped
  <2> QED
    BY <1>2, <2>1, AnswerRows DEF MadeFrom
<1>5. /\ row \in Job /\ row.kind = jobs[j].kind /\ row.state = "SUCCEEDED"
      /\ row.made = p /\ row.question = jobs[j].question
  BY <1>2, <1>3 DEF Job
<1>6. /\ jobs' = [jobs EXCEPT ![j] = row]
      /\ UNCHANGED <<plans, questions, questionRevisions, answers, answerRevisions, workers>>
  BY DEF RecordResult
<1> HIDE DEF j, p, row
<1>7. JobIsRight(j, row, plans, questions, answers)
  BY <1>2, <1>3, <1>4, <1>5 DEF JobIsRight
<1>8. TablesInv' /\ Grown
  BY <1>2, <1>5, <1>6, <1>7, JobChanged
<1> QED
  BY <1>6, <1>8, ApiEnds DEF RecordResult, WorkflowInv

-----------------------------------------------------------------------------
(* Edits: one more revision, and a draft again.                            *)
LEMMA EditQuestionStep ==
  ASSUME WorkflowInv, NEW a \in Apis, EditQuestion(a)
  PROVE  WorkflowInv'
<1> DEFINE q == api[a].row
           m == Len(questionRevisions)
           old == questions[q]
           row == [old EXCEPT !.current = m + 1, !.review = "DRAFT"]
           new == Revision(q, questionRevisions[old.current].number + 1, old.current)
<1>1. q \in DOMAIN questions /\ q \in Nat \ {0}
  BY QuestionRows DEF EditQuestion, WorkflowInv, ProcessesInv, Knows
<1>2. old \in Question /\ m \in Nat /\ old.current \in DOMAIN questionRevisions
  BY <1>1, QuestionRows DEF WorkflowInv, TablesInv, History
<1>3. row \in Question /\ row.current = m + 1
  <2>1. ASSUME NEW n \in Nat \ {0}, NEW o \in Question
        PROVE  LET r == [o EXCEPT !.current = n, !.review = "DRAFT"]
               IN r \in Question /\ r.current = n
    BY DEF Question, Reviews
  <2>2. m + 1 \in Nat \ {0} /\ old \in Question
    BY <1>2
  <2> HIDE DEF m, old
  <2> QED
    BY <2>1, <2>2
<1>4. /\ new \in RevisionRow /\ new.of = q /\ new.supersedes = old.current
      /\ new.number = questionRevisions[old.current].number + 1
  <2>1. questionRevisions[old.current].number \in Nat /\ old.current \in Nat
    BY <1>2, QuestionRows DEF RevisionRow, Question
  <2> QED
    BY <1>1, <2>1 DEF Revision, RevisionRow
<1>5. /\ questions' = [questions EXCEPT ![q] = row]
      /\ questionRevisions' = Append(questionRevisions, new)
      /\ UNCHANGED <<jobs, plans, answers, answerRevisions, workers>> /\ Ends(a)
  BY DEF EditQuestion
<1> HIDE DEF q, old, row, new
<1>6. /\ questions' \in Seq(Question) /\ DOMAIN questions' = DOMAIN questions
      /\ questions'[q] = row /\ \A i \in DOMAIN questions : i # q => questions'[i] = questions[i]
  BY <1>1, <1>3, <1>5, QuestionRows, RowChanged
<1>7. /\ questionRevisions' \in Seq(RevisionRow) /\ DOMAIN questionRevisions' = 1..(m + 1)
      /\ questionRevisions'[m + 1] = new
      /\ \A r \in DOMAIN questionRevisions : questionRevisions'[r] = questionRevisions[r]
  BY <1>4, <1>5, QuestionRows, RowAdded
<1>8. History(questions', questionRevisions')
  <2>1. DOMAIN questionRevisions = 1..m /\ \A r \in 1..m : questionRevisions[r].number \in Nat
    BY QuestionRows DEF RevisionRow
  <2>2. old = questions[q]
    BY DEF old
  <2> HIDE DEF m
  <2>3. History(questions, questionRevisions)
    BY DEF WorkflowInv, TablesInv
  <2> QED
    <3>1. \A i \in DOMAIN questions : i # q => questions'[i].current = questions[i].current
      BY <1>6
    <3>2. questions'[q].current = m + 1
      BY <1>3, <1>6
    <3>3. \A r \in 1..m : /\ questionRevisions'[r] = questionRevisions[r]
                          /\ questionRevisions[r].number \in Nat
      BY <1>7, <2>1
    <3>4. /\ questionRevisions'[m + 1].of = q
          /\ questionRevisions'[m + 1].supersedes = questions[q].current
          /\ questionRevisions'[m + 1].number
               = questionRevisions[questions[q].current].number + 1
      BY <1>4, <1>7, <2>2
    <3>5. Extended(questions, questions', questionRevisions, questionRevisions', m, q)
      BY <1>1, <1>6, <1>7, <2>1, <3>1, <3>2, <3>3, <3>4 DEF Extended
    <3> QED
      BY <1>2, <2>3, <3>5, HistoryExtended
<1>9. Grown
  BY <1>5, <1>6 DEF Grown
<1>10. TablesInv'
  <2>1. JobsAreRight'
    BY <1>5, <1>9, JobsStayRight
  <2> QED
    BY <1>5, <1>6, <1>7, <1>8, <2>1 DEF WorkflowInv, TablesInv, TablesAreTyped, AnswersStand
<1> QED
  BY <1>5, <1>9, <1>10, ApiEnds DEF WorkflowInv

LEMMA EditAnswerStep ==
  ASSUME WorkflowInv, NEW a \in Apis, EditAnswer(a)
  PROVE  WorkflowInv'
<1> DEFINE i == api[a].row
           m == Len(answerRevisions)
           old == answers[i]
<1>1. PICK draft \in ClientAnswers :
        /\ Materializable(draft)
        /\ answerRevisions' = Append(answerRevisions,
             AnswerRevision(i, answerRevisions[old.current].number + 1, old.current,
                            StoredClaims(draft)))
        /\ answers' = [answers EXCEPT ![i] = [old EXCEPT !.current = m + 1, !.review = "DRAFT",
                                                         !.verification = Verification(draft)]]
  BY DEF EditAnswer
<1> DEFINE row == [old EXCEPT !.current = m + 1, !.review = "DRAFT",
                              !.verification = Verification(draft)]
           new == AnswerRevision(i, answerRevisions[old.current].number + 1, old.current,
                                 StoredClaims(draft))
<1>2. i \in DOMAIN answers /\ i \in Nat \ {0}
  BY AnswerRows DEF EditAnswer, WorkflowInv, ProcessesInv, Knows
<1>3. old \in Answer /\ m \in Nat /\ old.current \in DOMAIN answerRevisions
  BY <1>2, AnswerRows
<1>4. /\ StoredClaims(draft) \in Seq(StoredClaim) /\ StoredClaims(draft) # <<>>
      /\ Verification(draft) \in {"VERIFIED", "INSUFFICIENT_EVIDENCE"}
      /\ Verification(draft) = "VERIFIED" =>
           \A k \in DOMAIN StoredClaims(draft) : /\ StoredClaims(draft)[k].type = "SUPPORTED"
                                                 /\ StoredClaims(draft)[k].evidence # {}
  BY <1>1, ClaimsAreStored, QuestionWorkflowAssumption
<1>5. /\ row \in Answer /\ row.current = m + 1 /\ row.review = "DRAFT"
      /\ row.verification = Verification(draft) /\ row.job = old.job
  <2>1. Verification(draft) \in {"VERIFIED", "INSUFFICIENT_EVIDENCE"} /\ m + 1 \in Nat \ {0}
    BY <1>3, <1>4
  <2> DEFINE v == Verification(draft)
             n == m + 1
  <2>2. v \in {"VERIFIED", "INSUFFICIENT_EVIDENCE"} /\ n \in Nat \ {0} /\ old \in Answer
    BY <1>3, <2>1
  <2>3. row = [old EXCEPT !.current = n, !.review = "DRAFT", !.verification = v]
    OBVIOUS
  <2> HIDE DEF m, n, old, v, row
  <2>4. row \in Answer /\ row.current = n /\ row.review = "DRAFT" /\ row.verification = v
        /\ row.job = old.job
    BY <2>2, <2>3 DEF Answer, Reviews
  <2> QED
    BY <2>4 DEF v, n
<1>6. /\ new \in AnswerRevisionRow /\ new.of = i /\ new.supersedes = old.current
      /\ new.number = answerRevisions[old.current].number + 1
      /\ new.claims = StoredClaims(draft)
  <2>1. answerRevisions[old.current].number \in Nat /\ old.current \in Nat
    BY <1>3, AnswerRows DEF AnswerRevisionRow, Answer
  <2>2. ASSUME NEW of \in Nat \ {0}, NEW n \in Nat, NEW c \in Nat,
               NEW claims \in Seq(StoredClaim)
        PROVE  LET r == AnswerRevision(of, n + 1, c, claims)
               IN /\ r \in AnswerRevisionRow /\ r.of = of /\ r.supersedes = c
                  /\ r.number = n + 1 /\ r.claims = claims
    BY DEF AnswerRevision, AnswerRevisionRow
  <2> HIDE DEF i, old
  <2> QED
    BY <1>2, <1>4, <2>1, <2>2
<1>7. /\ answers' = [answers EXCEPT ![i] = row]
      /\ answerRevisions' = Append(answerRevisions, new)
  BY <1>1
<1>8. UNCHANGED <<jobs, plans, questions, questionRevisions, workers>> /\ Ends(a)
  BY DEF EditAnswer
<1> HIDE DEF i, old, row, new
<1>9. /\ answers' \in Seq(Answer) /\ DOMAIN answers' = DOMAIN answers
      /\ answers'[i] = row /\ \A k \in DOMAIN answers : k # i => answers'[k] = answers[k]
  BY <1>2, <1>5, <1>7, AnswerRows, RowChanged
<1>10. /\ answerRevisions' \in Seq(AnswerRevisionRow) /\ DOMAIN answerRevisions' = 1..(m + 1)
       /\ answerRevisions'[m + 1] = new
       /\ \A r \in DOMAIN answerRevisions : answerRevisions'[r] = answerRevisions[r]
  BY <1>6, <1>7, AnswerRows, RowAdded
<1>11. DOMAIN answerRevisions = 1..m /\ \A r \in 1..m : answerRevisions[r].number \in Nat
  BY AnswerRows DEF AnswerRevisionRow
<1>12. old = answers[i]
  BY DEF old
<1> HIDE DEF m
<1>13. History(answers', answerRevisions')
  <2>1. History(answers, answerRevisions)
    BY DEF WorkflowInv, TablesInv
  <2> QED
    <3>1. \A k \in DOMAIN answers : k # i => answers'[k].current = answers[k].current
      BY <1>9
    <3>2. answers'[i].current = m + 1
      BY <1>5, <1>9
    <3>3. \A r \in 1..m : /\ answerRevisions'[r] = answerRevisions[r]
                          /\ answerRevisions[r].number \in Nat
      BY <1>10, <1>11
    <3>4. /\ answerRevisions'[m + 1].of = i
          /\ answerRevisions'[m + 1].supersedes = answers[i].current
          /\ answerRevisions'[m + 1].number = answerRevisions[answers[i].current].number + 1
      BY <1>6, <1>10, <1>12
    <3>5. /\ i \in DOMAIN answers /\ m \in Nat /\ DOMAIN answerRevisions = 1..m
          /\ DOMAIN answerRevisions' = 1..(m + 1) /\ DOMAIN answers' = DOMAIN answers
      BY <1>2, <1>3, <1>9, <1>10, <1>11
    <3>6. Extended(answers, answers', answerRevisions, answerRevisions', m, i)
      BY <3>1, <3>2, <3>3, <3>4, <3>5 DEF Extended
    <3> QED
      BY <1>3, <2>1, <3>6, HistoryExtended
<1>14. Grown
  <2>1. answers'[i].job = answers[i].job /\ answers'[i].current \notin DOMAIN answerRevisions
    BY <1>3, <1>5, <1>9, <1>11, <1>12
  <2>2. DOMAIN answerRevisions \subseteq DOMAIN answerRevisions'
    BY <1>3, <1>10, <1>11
  <2> QED
    BY <1>8, <1>9, <2>1, <2>2 DEF Grown
<1>15. AnswersStand'
  <2>1. Stands(row, answerRevisions')
    BY <1>4, <1>5, <1>6, <1>10 DEF Stands
  <2>2. ASSUME NEW k \in DOMAIN answers, k # i
        PROVE  Stands(answers[k], answerRevisions')
    BY <1>10, AnswerRows DEF Stands
  <2> QED
    BY <1>9, <2>1, <2>2 DEF AnswersStand
<1>16. JobsAreRight'
  BY <1>8, <1>14, JobsStayRight
<1>17. TablesInv'
  BY <1>8, <1>9, <1>10, <1>13, <1>15, <1>16 DEF WorkflowInv, TablesInv, TablesAreTyped
<1> QED
  BY <1>8, <1>14, <1>17, ApiEnds DEF WorkflowInv

(* A decision changes the review status of a row, and nothing else.        *)
LEMMA DecideStep ==
  ASSUME WorkflowInv, NEW a \in Apis, Decide(a)
  PROVE  WorkflowInv'
<1> DEFINE i == api[a].row
           status == api[a].status
<1>1. /\ api[a] \in Calls /\ Knows(api[a], jobs, plans, questions, answers, answerRevisions)
      /\ status \in Reviews
  BY DEF WorkflowInv, ProcessesInv, Calls
<1>2. Ends(a) /\ UNCHANGED <<jobs, plans, questionRevisions, answerRevisions, workers>>
  BY DEF Decide
<1>3. CASE api[a].pc = "REVIEWING_QUESTION"
  <2> DEFINE row == [questions[i] EXCEPT !.review = status]
  <2>1. i \in DOMAIN questions
    BY <1>1, <1>3 DEF Knows
  <2>2. row \in Question /\ row.current = questions[i].current
    BY <1>1, <2>1, QuestionRows DEF Question
  <2>3. questions' = [questions EXCEPT ![i] = row] /\ answers' = answers
    BY <1>3 DEF Decide
  <2> HIDE DEF i, row
  <2>4. /\ questions' \in Seq(Question) /\ DOMAIN questions' = DOMAIN questions
        /\ \A k \in DOMAIN questions : questions'[k].current = questions[k].current
    <3>1. /\ questions' \in Seq(Question) /\ DOMAIN questions' = DOMAIN questions
          /\ questions'[i] = row
          /\ \A k \in DOMAIN questions : k # i => questions'[k] = questions[k]
      BY <2>1, <2>2, <2>3, QuestionRows, RowChanged
    <3> QED
      BY <2>2, <3>1
  <2>5. History(questions', questionRevisions)
    BY <2>4, HistoryKept DEF WorkflowInv, TablesInv
  <2>6. Grown
    BY <1>2, <2>3, <2>4 DEF Grown
  <2>7. JobsAreRight'
    BY <1>2, <2>6, JobsStayRight
  <2>8. TablesInv'
    BY <1>2, <2>3, <2>4, <2>5, <2>7 DEF WorkflowInv, TablesInv, TablesAreTyped, AnswersStand
  <2> QED
    BY <1>2, <2>6, <2>8, ApiEnds DEF WorkflowInv
<1>4. CASE api[a].pc = "REVIEWING_ANSWER"
  <2> DEFINE row == [answers[i] EXCEPT !.review = status]
  <2>1. i \in DOMAIN answers /\ answers[i].current = api[a].rev
    BY <1>1, <1>4 DEF Knows, Decide, StillReviewable
  <2>2. /\ row \in Answer /\ row.current = answers[i].current /\ row.review = status
        /\ row.verification = answers[i].verification /\ row.job = answers[i].job
    BY <1>1, <2>1, AnswerRows DEF Answer
  <2>3. status = "CONFIRMED" => answers[i].verification = "VERIFIED"
    BY <1>1, <1>4, <2>1 DEF Knows
  <2>4. answers' = [answers EXCEPT ![i] = row] /\ questions' = questions
    BY <1>4 DEF Decide
  <2> HIDE DEF i, row, status
  <2>5. /\ answers' \in Seq(Answer) /\ DOMAIN answers' = DOMAIN answers
        /\ answers'[i] = row /\ \A k \in DOMAIN answers : k # i => answers'[k] = answers[k]
    BY <2>1, <2>2, <2>4, AnswerRows, RowChanged
  <2>6. \A k \in DOMAIN answers : /\ answers'[k].current = answers[k].current
                                  /\ answers'[k].verification = answers[k].verification
                                  /\ answers'[k].job = answers[k].job
    BY <2>2, <2>5
  <2>7. History(answers', answerRevisions)
    BY <2>5, <2>6, HistoryKept DEF WorkflowInv, TablesInv
  <2>8. Grown
    BY <1>2, <2>4, <2>5, <2>6 DEF Grown
  <2>9. AnswersStand'
    <3>1. Stands(row, answerRevisions)
      BY <2>1, <2>2, <2>3, AnswerRows DEF Stands
    <3> QED
      BY <1>2, <2>5, <3>1, AnswerRows DEF AnswersStand
  <2>10. JobsAreRight'
    BY <1>2, <2>8, JobsStayRight
  <2>11. TablesInv'
    BY <1>2, <2>4, <2>5, <2>7, <2>9, <2>10 DEF WorkflowInv, TablesInv, TablesAreTyped
  <2> QED
    BY <1>2, <2>8, <2>11, ApiEnds DEF WorkflowInv
<1> QED
  BY <1>3, <1>4 DEF Decide

-----------------------------------------------------------------------------
(* Materialisation: rows of a plan, or of an answer, each at revision 1.   *)
LEMMA RowsListed ==
  ASSUME NEW S, NEW n \in Nat, NEW f \in [1..n -> S]
  PROVE  f \in Seq(S) /\ Len(f) = n
BY IsASeq, LenProperties

LEMMA RowsAdded ==
  ASSUME NEW S, NEW s \in Seq(S), NEW n \in Nat, NEW new \in [1..n -> S]
  PROVE  LET t == s \o new
         IN /\ t \in Seq(S) /\ DOMAIN t = 1..(Len(s) + n) /\ DOMAIN s = 1..Len(s) /\ Len(s) \in Nat
            /\ \A k \in 1..Len(s) : t[k] = s[k]
            /\ \A k \in 1..n : t[Len(s) + k] = new[k]
<1>1. new \in Seq(S) /\ Len(new) = n
  BY RowsListed
<1>2. DOMAIN s = 1..Len(s) /\ Len(s) \in Nat
  BY LenProperties
<1>3. /\ s \o new \in Seq(S) /\ Len(s \o new) = Len(s) + n
      /\ \A i \in 1..(Len(s) + n) :
           (s \o new)[i] = IF i <= Len(s) THEN s[i] ELSE new[i - Len(s)]
  BY <1>1, ConcatProperties
<1>4. DOMAIN (s \o new) = 1..(Len(s) + n)
  BY <1>3, LenProperties
<1>5. ASSUME NEW k \in 1..Len(s) PROVE (s \o new)[k] = s[k]
  BY <1>2, <1>3
<1>6. ASSUME NEW k \in 1..n PROVE (s \o new)[Len(s) + k] = new[k]
  <2>1. /\ Len(s) + k \in 1..(Len(s) + n) /\ ~(Len(s) + k <= Len(s))
        /\ (Len(s) + k) - Len(s) = k
    BY <1>2
  <2> QED
    BY <1>3, <2>1
<1> QED
  BY <1>2, <1>3, <1>4, <1>5, <1>6

LEMMA MaterializePlanStep ==
  ASSUME WorkflowInv, NEW a \in Apis, MaterializePlan(a)
  PROVE  WorkflowInv'
<1> DEFINE j == api[a].row
           p == Len(plans) + 1
           k == Len(questions)
           m == Len(questionRevisions)
           rows == [i \in 1..PlanSize |-> NewQuestion(p, m + i)]
           firsts == [i \in 1..PlanSize |-> Revision(k + i, 1, 0)]
           plan == [job |-> j]
           c == Call("RECORDING", j, p)
<1>1. /\ j \in DOMAIN jobs /\ j \in Nat \ {0} /\ jobs[j].state = "SUCCEEDED"
      /\ jobs[j].kind = "QUESTION_PLAN"
  BY JobRows DEF MaterializePlan, WorkflowInv, ProcessesInv, Knows
<1>2. plans \in Seq([job : Nat \ {0}]) /\ Len(plans) \in Nat /\ k \in Nat /\ m \in Nat
  BY LenProperties DEF WorkflowInv, TablesInv, TablesAreTyped
<1>3. /\ plans' = Append(plans, plan)
      /\ questions' = questions \o rows
      /\ questionRevisions' = questionRevisions \o firsts
      /\ api' = [api EXCEPT ![a] = c]
      /\ UNCHANGED <<jobs, answers, answerRevisions, workers>>
  BY DEF MaterializePlan
<1>4. plan \in [job : Nat \ {0}] /\ plan.job = j
  BY <1>1
<1>5. /\ rows \in [1..PlanSize -> Question]
      /\ \A i \in 1..PlanSize : rows[i].current = m + i
  BY <1>2 DEF NewQuestion, Question, Reviews
<1>6. /\ firsts \in [1..PlanSize -> RevisionRow]
      /\ \A i \in 1..PlanSize : /\ firsts[i].of = k + i /\ firsts[i].number = 1
                                /\ firsts[i].supersedes = 0
  BY <1>2 DEF Revision, RevisionRow
<1>7. c \in Calls /\ c.pc = "RECORDING" /\ c.row = j /\ c.rev = p
  BY <1>1, <1>2 DEF Call, Calls, Phases, Reviews
<1> HIDE DEF j, rows, firsts, plan, c
<1>8. /\ plans' \in Seq([job : Nat \ {0}]) /\ DOMAIN plans' = 1..p /\ DOMAIN plans = 1..Len(plans)
      /\ plans'[p].job = j /\ \A r \in DOMAIN plans : plans'[r] = plans[r]
  BY <1>2, <1>3, <1>4, RowAdded
<1>9. PlanSize \in Nat
  BY QuestionWorkflowAssumption
<1>10. /\ questions' \in Seq(Question) /\ DOMAIN questions' = 1..(k + PlanSize)
       /\ DOMAIN questions = 1..k
       /\ \A i \in 1..k : questions'[i] = questions[i]
       /\ \A i \in 1..PlanSize : questions'[k + i] = rows[i]
  <2>1. questions \in Seq(Question) /\ questions' = questions \o rows
    BY <1>3, QuestionRows
  <2> QED
    BY <1>5, <1>9, <2>1, RowsAdded
<1>11. /\ questionRevisions' \in Seq(RevisionRow) /\ DOMAIN questionRevisions' = 1..(m + PlanSize)
       /\ DOMAIN questionRevisions = 1..m
       /\ \A i \in 1..m : questionRevisions'[i] = questionRevisions[i]
       /\ \A i \in 1..PlanSize : questionRevisions'[m + i] = firsts[i]
  BY <1>3, <1>6, <1>9, QuestionRows, RowsAdded
<1> HIDE DEF k, m
<1>12. History(questions', questionRevisions')
  <2>1. \A i \in 1..PlanSize : /\ questions'[k + i].current = m + i
                               /\ questionRevisions'[m + i].of = k + i
                               /\ questionRevisions'[m + i].number = 1
                               /\ questionRevisions'[m + i].supersedes = 0
    BY <1>5, <1>6, <1>10, <1>11
  <2>2. History(questions, questionRevisions)
    BY DEF WorkflowInv, TablesInv
  <2>3. /\ DOMAIN questions = 1..k /\ DOMAIN questions' = 1..(k + PlanSize)
        /\ DOMAIN questionRevisions = 1..m /\ DOMAIN questionRevisions' = 1..(m + PlanSize)
        /\ \A i \in 1..k : questions'[i] = questions[i]
        /\ \A i \in 1..m : questionRevisions'[i] = questionRevisions[i]
    BY <1>10, <1>11
  <2> QED
    <3>1. Begun(questions, questions', questionRevisions, questionRevisions', k, m, PlanSize)
      BY <2>1, <2>3 DEF Begun
    <3> QED
      BY <1>2, <1>9, <2>2, <3>1, HistoryBegun
<1>13. Grown
  <2>1. \A r \in DOMAIN plans : r \in DOMAIN plans' /\ plans'[r].job = plans[r].job
    BY <1>2, <1>8
  <2>2. DOMAIN questions \subseteq DOMAIN questions'
    BY <1>2, <1>9, <1>10
  <2> QED
    BY <1>3, <2>1, <2>2 DEF Grown
<1>14. TablesInv'
  <2>1. JobsAreRight'
    BY <1>3, <1>13, JobsStayRight
  <2> QED
    BY <1>3, <1>8, <1>10, <1>11, <1>12, <2>1 DEF WorkflowInv, TablesInv, TablesAreTyped, AnswersStand
<1>15. Knows(c, jobs', plans', questions', answers', answerRevisions')
  <2>1. p \in DOMAIN plans'
    BY <1>2, <1>8
  <2> QED
    BY <1>1, <1>3, <1>7, <1>8, <2>1 DEF Knows, MadeFrom
<1>16. ProcessesInv'
  BY <1>3, <1>7, <1>13, <1>15, ApiSteps
<1> QED
  BY <1>14, <1>16 DEF WorkflowInv

LEMMA MaterializeAnswerStep ==
  ASSUME WorkflowInv, NEW a \in Apis, MaterializeAnswer(a)
  PROVE  WorkflowInv'
<1> DEFINE j == api[a].row
           draft == api[a].draft
           k == Len(answers)
           m == Len(answerRevisions)
           row == NewAnswer(jobs[j].question, m + 1, Verification(draft), j)
           first == AnswerRevision(k + 1, 1, 0, StoredClaims(draft))
           c == Call("RECORDING", j, k + 1)
<1>1. /\ j \in DOMAIN jobs /\ j \in Nat \ {0} /\ jobs[j].state = "SUCCEEDED"
      /\ jobs[j].kind = "ANSWER_GENERATION" /\ draft \in AnswerDrafts /\ Materializable(draft)
  BY JobRows DEF MaterializeAnswer, WorkflowInv, ProcessesInv, Knows, Drafts
<1>2. jobs[j].question \in Nat \ {0}
  BY <1>1, JobRows, QuestionRows DEF JobIsRight
<1>3. k \in Nat /\ m \in Nat
  BY LenProperties DEF WorkflowInv, TablesInv, TablesAreTyped
<1>4. /\ StoredClaims(draft) \in Seq(StoredClaim) /\ StoredClaims(draft) # <<>>
      /\ Verification(draft) \in {"VERIFIED", "INSUFFICIENT_EVIDENCE"}
      /\ Verification(draft) = "VERIFIED" =>
           \A i \in DOMAIN StoredClaims(draft) : /\ StoredClaims(draft)[i].type = "SUPPORTED"
                                                 /\ StoredClaims(draft)[i].evidence # {}
  BY <1>1, ClaimsAreStored
<1>5. /\ answers' = Append(answers, row)
      /\ answerRevisions' = Append(answerRevisions, first)
      /\ api' = [api EXCEPT ![a] = c]
      /\ UNCHANGED <<jobs, plans, questions, questionRevisions, workers>>
  BY DEF MaterializeAnswer
<1>6. /\ row \in Answer /\ row.current = m + 1 /\ row.review = "DRAFT" /\ row.job = j
      /\ row.verification = Verification(draft)
  BY <1>1, <1>2, <1>3, <1>4 DEF NewAnswer, Answer, Reviews
<1>7. /\ first \in AnswerRevisionRow /\ first.of = k + 1 /\ first.number = 1
      /\ first.supersedes = 0 /\ first.claims = StoredClaims(draft)
  BY <1>3, <1>4 DEF AnswerRevision, AnswerRevisionRow
<1>8. c \in Calls /\ c.pc = "RECORDING" /\ c.row = j /\ c.rev = k + 1
  BY <1>1, <1>3 DEF Call, Calls, Phases, Reviews
<1> HIDE DEF j, draft, row, first, c
<1>9. /\ answers' \in Seq(Answer) /\ DOMAIN answers' = 1..(k + 1) /\ DOMAIN answers = 1..k
      /\ answers'[k + 1] = row /\ \A i \in DOMAIN answers : answers'[i] = answers[i]
  BY <1>5, <1>6, AnswerRows, RowAdded
<1>10. /\ answerRevisions' \in Seq(AnswerRevisionRow) /\ DOMAIN answerRevisions' = 1..(m + 1)
       /\ DOMAIN answerRevisions = 1..m /\ answerRevisions'[m + 1] = first
       /\ \A r \in DOMAIN answerRevisions : answerRevisions'[r] = answerRevisions[r]
  BY <1>5, <1>7, AnswerRows, RowAdded
<1> HIDE DEF k, m
<1>11. History(answers', answerRevisions')
  <2>1. \A i \in 1..1 : /\ answers'[k + i].current = m + i
                        /\ answerRevisions'[m + i].of = k + i
                        /\ answerRevisions'[m + i].number = 1
                        /\ answerRevisions'[m + i].supersedes = 0
    BY <1>3, <1>6, <1>7, <1>9, <1>10
  <2>2. History(answers, answerRevisions)
    BY DEF WorkflowInv, TablesInv
  <2>3. /\ DOMAIN answers = 1..k /\ DOMAIN answers' = 1..(k + 1)
        /\ DOMAIN answerRevisions = 1..m /\ DOMAIN answerRevisions' = 1..(m + 1)
        /\ \A i \in 1..k : answers'[i] = answers[i]
        /\ \A i \in 1..m : answerRevisions'[i] = answerRevisions[i]
    BY <1>9, <1>10
  <2>4. Begun(answers, answers', answerRevisions, answerRevisions', k, m, 1)
    BY <2>1, <2>3 DEF Begun
  <2> QED
    BY <1>3, <2>2, <2>4, HistoryBegun
<1>12. Grown
  <2>1. \A i \in DOMAIN answers : i \in DOMAIN answers' /\ answers'[i] = answers[i]
    BY <1>3, <1>9
  <2>2. DOMAIN answerRevisions \subseteq DOMAIN answerRevisions'
    BY <1>3, <1>10
  <2> QED
    BY <1>5, <2>1, <2>2 DEF Grown
<1>13. AnswersStand'
  <2>1. Stands(row, answerRevisions')
    BY <1>4, <1>6, <1>7, <1>10 DEF Stands
  <2>2. ASSUME NEW i \in DOMAIN answers PROVE Stands(answers[i], answerRevisions')
    BY <1>10, AnswerRows DEF Stands
  <2>3. \A i \in 1..(k + 1) : i \in 1..k \/ i = k + 1
    BY <1>3
  <2> QED
    BY <1>9, <2>1, <2>2, <2>3 DEF AnswersStand
<1>14. TablesInv'
  <2>1. JobsAreRight'
    BY <1>5, <1>12, JobsStayRight
  <2> QED
    BY <1>5, <1>9, <1>10, <1>11, <1>13, <2>1 DEF WorkflowInv, TablesInv, TablesAreTyped
<1>15. Knows(c, jobs', plans', questions', answers', answerRevisions')
  <2>1. k + 1 \in DOMAIN answers'
    BY <1>3, <1>9
  <2> QED
    BY <1>1, <1>5, <1>6, <1>8, <1>9, <2>1 DEF Knows, MadeFrom
<1>16. ProcessesInv'
  BY <1>5, <1>8, <1>12, <1>15, ApiSteps
<1> QED
  BY <1>14, <1>16 DEF WorkflowInv

-----------------------------------------------------------------------------
(* The invariant, and what follows from it.                                *)
LEMMA WorkflowInvStep ==
  ASSUME WorkflowInv, [Next]_vars
  PROVE  WorkflowInv'
<1>1. CASE UNCHANGED vars
  <2>1. TablesInv'
    BY <1>1, NothingWritten DEF vars, db
  <2>2. ProcessesInv'
    BY <1>1 DEF vars, WorkflowInv, ProcessesInv
  <2> QED
    BY <2>1, <2>2 DEF WorkflowInv
<1>2. ASSUME NEW a \in Apis, Queue(a)
      PROVE  WorkflowInv'
  BY <1>2, QueueSteps, ReadingSteps DEF Queue
<1>3. ASSUME NEW a \in Apis, Materialize(a)
      PROVE  WorkflowInv'
  BY <1>3, ReadingSteps, MaterializePlanStep, MaterializeAnswerStep, EndingSteps, RecordStep
     DEF Materialize
<1>4. ASSUME NEW a \in Apis, Edit(a)
      PROVE  WorkflowInv'
  BY <1>4, ReadingSteps, EditQuestionStep, EditAnswerStep, EndingSteps DEF Edit
<1>5. ASSUME NEW a \in Apis, Review(a)
      PROVE  WorkflowInv'
  BY <1>5, ReadingSteps, DecideStep, EndingSteps DEF Review
<1>6. ASSUME NEW w \in Workers, Claim(w) \/ FinishJob(w) \/ WorkerCrash(w)
      PROVE  WorkflowInv'
  BY <1>6, ClaimStep, FinishStep, WorkerCrashStep
<1> QED
  BY <1>1, <1>2, <1>3, <1>4, <1>5, <1>6, EndingSteps DEF Next

LEMMA WorkflowInvHolds == Spec => []WorkflowInv
<1>1. Init => WorkflowInv
  BY WorkflowInvInit
<1>2. WorkflowInv /\ [Next]_vars => WorkflowInv'
  BY WorkflowInvStep
<1> QED
  BY <1>1, <1>2, PTL DEF Spec

(* Every row and every request of the question workflow has its type.      *)
THEOREM WorkflowTypes == Spec => []TypeOK
<1>1. WorkflowInv => TypeOK
  BY WorkflowInvImplies
<1> QED
  BY <1>1, WorkflowInvHolds, PTL

(* However many API processes edit and materialise at once, and whichever  *)
(* of them die: revisions of a question or of an answer are one chain that *)
(* ends at the row's current revision (editQuestion, editAnswer, createPlan *)
(* and createAnswer of the workflow repository).                           *)
THEOREM HistoriesAreChains == Spec => []HistoryIsAChain
<1>1. WorkflowInv => HistoryIsAChain
  BY WorkflowInvImplies
<1> QED
  BY <1>1, WorkflowInvHolds, PTL

(* A confirmed answer's current revision is supported by the document,     *)
(* whatever drafts the model returns and readers send (setAnswerStatus,    *)
(* materializeClaims).                                                     *)
THEOREM ConfirmedAnswersStand == Spec => []ConfirmedAnswersStandOnEvidence
<1>1. WorkflowInv => ConfirmedAnswersStandOnEvidence
  BY WorkflowInvImplies
<1> QED
  BY <1>1, WorkflowInvHolds, PTL

(* The result a job shows is a row made from this very job (readJob and    *)
(* updateResult).                                                          *)
THEOREM ResultsAreTheirJobs == Spec => []ResultsNameWhatTheyMade
<1>1. WorkflowInv => ResultsNameWhatTheyMade
  BY WorkflowInvImplies
<1> QED
  BY <1>1, WorkflowInvHolds, PTL

-----------------------------------------------------------------------------
(* Action properties.                                                      *)
LEMMA QuestionsSeen ==
  ASSUME WorkflowInv, [Next]_vars
  PROVE  SeesWhatItChanges(questions, questions', "EDITING_QUESTION", "REVIEWING_QUESTION")
<1> DEFINE Seen == SeesWhatItChanges(questions, questions', "EDITING_QUESTION",
                                     "REVIEWING_QUESTION")
<1>1. ASSUME questions' = questions
      PROVE  Seen
  BY <1>1 DEF SeesWhatItChanges
<1>2. ASSUME NEW a \in Apis, EditQuestion(a)
      PROVE  Seen
  <2> DEFINE q == api[a].row
             row == [questions[q] EXCEPT !.current = Len(questionRevisions) + 1,
                                         !.review = "DRAFT"]
  <2>1. /\ q \in DOMAIN questions /\ api[a].pc = "EDITING_QUESTION"
        /\ api[a].rev = questions[q].current /\ questions' = [questions EXCEPT ![q] = row]
    BY <1>2 DEF EditQuestion, Unchanged, WorkflowInv, ProcessesInv, Knows
  <2>2. row.review = "DRAFT"
    BY <2>1, QuestionRows DEF Question
  <2> HIDE DEF row
  <2>3. ASSUME NEW i \in DOMAIN questions
        PROVE  IF i = q THEN questions'[i] = row ELSE questions'[i] = questions[i]
    BY <2>1
  <2> QED
    BY <2>1, <2>2, <2>3 DEF SeesWhatItChanges
<1>3. ASSUME NEW a \in Apis, Decide(a), api[a].pc = "REVIEWING_QUESTION"
      PROVE  Seen
  <2> DEFINE q == api[a].row
             row == [questions[q] EXCEPT !.review = api[a].status]
  <2>1. /\ q \in DOMAIN questions /\ api[a].rev = questions[q].current
        /\ questions[q].review = "DRAFT" /\ questions' = [questions EXCEPT ![q] = row]
    BY <1>3 DEF Decide, StillReviewable, WorkflowInv, ProcessesInv, Knows
  <2>2. row.current = questions[q].current
    BY <2>1, QuestionRows DEF Question
  <2> HIDE DEF row
  <2>3. ASSUME NEW i \in DOMAIN questions
        PROVE  IF i = q THEN questions'[i] = row ELSE questions'[i] = questions[i]
    BY <2>1
  <2> QED
    BY <1>3, <2>1, <2>2, <2>3 DEF SeesWhatItChanges
<1>4. ASSUME NEW a \in Apis, MaterializePlan(a)
      PROVE  Seen
  <2>1. /\ questions \in Seq(Question) /\ Len(questions) \in Nat /\ DOMAIN questions = 1..Len(questions)
        /\ Len(plans) \in Nat /\ Len(questionRevisions) \in Nat /\ PlanSize \in Nat
    BY LenProperties, QuestionWorkflowAssumption DEF WorkflowInv, TablesInv, TablesAreTyped
  <2> DEFINE rows == [i \in 1..PlanSize |->
                        NewQuestion(Len(plans) + 1, Len(questionRevisions) + i)]
  <2>2. rows \in [1..PlanSize -> Question]
    BY <2>1 DEF NewQuestion, Question, Reviews
  <2>3. questions' = questions \o rows
    BY <1>4 DEF MaterializePlan
  <2> HIDE DEF rows
  <2>4. \A i \in 1..Len(questions) : questions'[i] = questions[i]
    BY <2>1, <2>2, <2>3, RowsAdded
  <2> QED
    BY <2>1, <2>4 DEF SeesWhatItChanges
<1> HIDE DEF Seen
<1>5. ASSUME UNCHANGED vars
      PROVE  Seen
  BY <1>1, <1>5 DEF vars
<1>6. ASSUME NEW a \in Apis, Queue(a) \/ Materialize(a)
      PROVE  Seen
  BY <1>1, <1>4, <1>6 DEF Queue, Materialize, EnqueuePlan, AskQuestion, EnqueueAnswer, ReadJob,
     MaterializeAnswer, MaterializeRefused, RecordResult, db
<1>7. ASSUME NEW a \in Apis, Edit(a) \/ Review(a) \/ ApiCrash(a)
      PROVE  Seen
  <2>1. CASE Decide(a)
    BY <1>1, <1>3, <2>1 DEF Decide
  <2>2. CASE ~Decide(a)
    BY <1>1, <1>2, <1>7, <2>2 DEF Edit, Review, OpenQuestion, OpenAnswer, EditAnswer, EditRefused,
       ReviewQuestion, ReviewAnswer, DecisionRefused, ApiCrash, db
  <2> QED
    BY <2>1, <2>2
<1>8. ASSUME NEW w \in Workers, Claim(w) \/ FinishJob(w) \/ WorkerCrash(w)
      PROVE  Seen
  BY <1>1, <1>8 DEF Claim, FinishJob, WorkerCrash, db
<1>9. Seen
  BY <1>5, <1>6, <1>7, <1>8 DEF Next
<1> QED
  BY <1>9 DEF Seen

(* How the answers change in a step: not at all, by an edit, by a decision *)
(* or by a materialisation.                                                *)
LEMMA AnswersChange ==
  ASSUME [Next]_vars
  PROVE  \/ answers' = answers
         \/ \E a \in Apis : \/ EditAnswer(a)
                            \/ Decide(a) /\ api[a].pc = "REVIEWING_ANSWER"
                            \/ MaterializeAnswer(a)
<1>1. ASSUME NEW a \in Apis, Queue(a) \/ Materialize(a)
      PROVE  answers' = answers \/ MaterializeAnswer(a)
  BY <1>1 DEF Queue, Materialize, EnqueuePlan, AskQuestion, EnqueueAnswer, ReadJob,
     MaterializePlan, MaterializeRefused, RecordResult, db
<1>2. ASSUME NEW a \in Apis, Edit(a) \/ Review(a) \/ ApiCrash(a)
      PROVE  answers' = answers \/ EditAnswer(a) \/ (Decide(a) /\ api[a].pc = "REVIEWING_ANSWER")
  <2>1. CASE Decide(a)
    BY <2>1 DEF Decide
  <2>2. CASE ~Decide(a)
    BY <1>2, <2>2 DEF Edit, Review, OpenQuestion, OpenAnswer, EditQuestion, EditRefused,
       ReviewQuestion, ReviewAnswer, DecisionRefused, ApiCrash, db
  <2> QED
    BY <2>1, <2>2
<1>3. ASSUME NEW w \in Workers, Claim(w) \/ FinishJob(w) \/ WorkerCrash(w)
      PROVE  answers' = answers
  BY <1>3 DEF Claim, FinishJob, WorkerCrash, db
<1>4. UNCHANGED vars => answers' = answers
  BY DEF vars
<1> QED
  BY <1>1, <1>2, <1>3, <1>4 DEF Next

LEMMA AnswersSeen ==
  ASSUME WorkflowInv, [Next]_vars
  PROVE  SeesWhatItChanges(answers, answers', "EDITING_ANSWER", "REVIEWING_ANSWER")
<1>1. CASE answers' = answers
  BY <1>1 DEF SeesWhatItChanges
<1>2. ASSUME NEW a \in Apis, EditAnswer(a)
      PROVE  SeesWhatItChanges(answers, answers', "EDITING_ANSWER", "REVIEWING_ANSWER")
  <2> DEFINE i == api[a].row
  <2>1. PICK draft \in ClientAnswers :
          answers' = [answers EXCEPT ![i] = [answers[i] EXCEPT !.current = Len(answerRevisions) + 1,
                                               !.review = "DRAFT",
                                               !.verification = Verification(draft)]]
    BY <1>2 DEF EditAnswer
  <2> DEFINE row == [answers[i] EXCEPT !.current = Len(answerRevisions) + 1, !.review = "DRAFT",
                                       !.verification = Verification(draft)]
  <2>2. /\ i \in DOMAIN answers /\ api[a].pc = "EDITING_ANSWER"
        /\ api[a].rev = answers[i].current
    BY <1>2 DEF EditAnswer, Unchanged, WorkflowInv, ProcessesInv, Knows
  <2>3. row.review = "DRAFT"
    BY <2>2, AnswerRows DEF Answer
  <2>4. answers' = [answers EXCEPT ![i] = row]
    BY <2>1
  <2> HIDE DEF row
  <2>5. ASSUME NEW k \in DOMAIN answers
        PROVE  IF k = i THEN answers'[k] = row ELSE answers'[k] = answers[k]
    BY <2>2, <2>4
  <2> QED
    BY <2>2, <2>3, <2>5 DEF SeesWhatItChanges
<1>3. ASSUME NEW a \in Apis, Decide(a), api[a].pc = "REVIEWING_ANSWER"
      PROVE  SeesWhatItChanges(answers, answers', "EDITING_ANSWER", "REVIEWING_ANSWER")
  <2> DEFINE i == api[a].row
             row == [answers[i] EXCEPT !.review = api[a].status]
  <2>1. /\ i \in DOMAIN answers /\ api[a].rev = answers[i].current
        /\ answers[i].review = "DRAFT" /\ answers' = [answers EXCEPT ![i] = row]
    BY <1>3 DEF Decide, StillReviewable, WorkflowInv, ProcessesInv, Knows
  <2>2. row.current = answers[i].current
    BY <2>1, AnswerRows DEF Answer
  <2> HIDE DEF row
  <2>3. ASSUME NEW k \in DOMAIN answers
        PROVE  IF k = i THEN answers'[k] = row ELSE answers'[k] = answers[k]
    BY <2>1
  <2> QED
    BY <1>3, <2>1, <2>2, <2>3 DEF SeesWhatItChanges
<1>4. ASSUME NEW a \in Apis, MaterializeAnswer(a)
      PROVE  SeesWhatItChanges(answers, answers', "EDITING_ANSWER", "REVIEWING_ANSWER")
  <2> DEFINE row == NewAnswer(jobs[api[a].row].question, Len(answerRevisions) + 1,
                              Verification(api[a].draft), api[a].row)
  <2>1. answers' = Append(answers, row)
    BY <1>4 DEF MaterializeAnswer
  <2> HIDE DEF row
  <2>2. \A i \in DOMAIN answers : answers'[i] = answers[i]
    <3>1. answers \in Seq(Answer)
      BY AnswerRows
    <3> QED
      BY <2>1, <3>1, LenProperties
  <2> QED
    BY <2>2 DEF SeesWhatItChanges
<1> QED
  BY <1>1, <1>2, <1>3, <1>4, AnswersChange

(* No step but an edit that saw the current revision makes a new one, and  *)
(* no decision is stored but about the undecided revision it was checked   *)
(* against, for any number of processes (the two compare-and-sets).        *)
THEOREM NoBlindDecisions == Spec => NobodyDecidesBlindly
<1>1. ASSUME WorkflowInv, [Next]_vars
      PROVE  /\ SeesWhatItChanges(questions, questions', "EDITING_QUESTION", "REVIEWING_QUESTION")
             /\ SeesWhatItChanges(answers, answers', "EDITING_ANSWER", "REVIEWING_ANSWER")
  BY <1>1, QuestionsSeen, AnswersSeen
<1> QED
  BY <1>1, WorkflowInvHolds, PTL DEF Spec, NobodyDecidesBlindly

(* An answer appears only for a question that is confirmed, then, in the   *)
(* revision the job carries: whatever was edited while the model ran and   *)
(* while the result waited for a GET (createAnswer).                       *)
THEOREM AnswersAnswerTheQuestion == Spec => AnswersAnswerWhatWasAsked
<1> DEFINE Asked == \A i \in DOMAIN answers' \ DOMAIN answers :
                      LET job == jobs[answers'[i].job] IN
                      /\ answers'[i].question = job.question
                      /\ questions[job.question].review = "CONFIRMED"
                      /\ questions[job.question].current = job.revision
<1>1. ASSUME WorkflowInv, [Next]_vars
      PROVE  Asked
  <2>1. ASSUME answers' = answers PROVE Asked
    BY <2>1
  <2>2. ASSUME NEW a \in Apis, EditAnswer(a) PROVE Asked
    <3>1. DOMAIN answers' = DOMAIN answers
      BY <2>2 DEF EditAnswer
    <3> QED
      BY <3>1
  <2>3. ASSUME NEW a \in Apis, Decide(a), api[a].pc = "REVIEWING_ANSWER" PROVE Asked
    <3>1. DOMAIN answers' = DOMAIN answers
      BY <2>3 DEF Decide
    <3> QED
      BY <3>1
  <2>4. ASSUME NEW a \in Apis, MaterializeAnswer(a) PROVE Asked
    <3> DEFINE j == api[a].row
               row == NewAnswer(jobs[j].question, Len(answerRevisions) + 1,
                                Verification(api[a].draft), j)
    <3>1. answers' = Append(answers, row) /\ StillAsked(j)
      BY <2>4 DEF MaterializeAnswer
    <3>2. row.job = j /\ row.question = jobs[j].question
      BY DEF NewAnswer
    <3> HIDE DEF row
    <3>3. \A i \in DOMAIN answers' \ DOMAIN answers : answers'[i] = row
      <4>1. answers \in Seq(Answer)
        BY <1>1 DEF WorkflowInv, TablesInv, TablesAreTyped
      <4> QED
        BY <3>1, <4>1, LenProperties
    <3> QED
      BY <3>1, <3>2, <3>3 DEF StillAsked
  <2> HIDE DEF Asked
  <2> QED
    BY <1>1, <2>1, <2>2, <2>3, <2>4, AnswersChange
<1> QED
  BY <1>1, WorkflowInvHolds, PTL DEF Spec, AnswersAnswerWhatWasAsked

-----------------------------------------------------------------------------
(* The refinement of ReviewedWork. What a reader sees of an answer he sees *)
(* through its job: the job and the wording it carries must not go away.   *)
QuestionView == [q \in DOMAIN questions |-> SeenQuestion(q)]
AnswerView == [i \in DOMAIN answers |-> SeenAnswer(i)]

AnswersAreTraceable ==
  \A i \in DOMAIN answers : /\ answers[i].job \in DOMAIN jobs
                            /\ jobs[answers[i].job].revision \in DOMAIN questionRevisions

(* A request that decides carries a decision.                              *)
RequestsDecide ==
  \A a \in Apis : api[a].pc \in {"REVIEWING_QUESTION", "REVIEWING_ANSWER"} =>
                   api[a].status \in {"CONFIRMED", "REJECTED"}

(* What no step takes away: the payloads of jobs and the wordings of       *)
(* questions.                                                              *)
Kept ==
  /\ \A j \in DOMAIN jobs : j \in DOMAIN jobs' /\ jobs'[j].revision = jobs[j].revision
  /\ \A r \in DOMAIN questionRevisions :
       r \in DOMAIN questionRevisions' /\ questionRevisions'[r] = questionRevisions[r]

(* Which step writes what a reader sees.                                   *)
LEMMA WritingSteps ==
  ASSUME [Next]_vars
  PROVE  \/ UNCHANGED <<questions, questionRevisions, answers, answerRevisions>>
         \/ \E a \in Apis : \/ MaterializePlan(a) \/ MaterializeAnswer(a)
                            \/ EditQuestion(a) \/ EditAnswer(a) \/ Decide(a)
<1> DEFINE Same == UNCHANGED <<questions, questionRevisions, answers, answerRevisions>>
<1>1. ASSUME NEW a \in Apis, Queue(a) \/ Materialize(a)
      PROVE  Same \/ MaterializePlan(a) \/ MaterializeAnswer(a)
  BY <1>1 DEF Queue, Materialize, EnqueuePlan, AskQuestion, EnqueueAnswer, ReadJob,
     MaterializeRefused, RecordResult, db
<1>2. ASSUME NEW a \in Apis, Edit(a) \/ Review(a) \/ ApiCrash(a)
      PROVE  Same \/ EditQuestion(a) \/ EditAnswer(a) \/ Decide(a)
  BY <1>2 DEF Edit, Review, OpenQuestion, OpenAnswer, EditRefused, ReviewQuestion, ReviewAnswer,
     DecisionRefused, ApiCrash, db
<1>3. ASSUME NEW w \in Workers, Claim(w) \/ FinishJob(w) \/ WorkerCrash(w)
      PROVE  Same
  BY <1>3 DEF Claim, FinishJob, WorkerCrash, db
<1>4. UNCHANGED vars => Same
  BY DEF vars
<1> HIDE DEF Same
<1>5. Same \/ \E a \in Apis : \/ MaterializePlan(a) \/ MaterializeAnswer(a)
                              \/ EditQuestion(a) \/ EditAnswer(a) \/ Decide(a)
  BY <1>1, <1>2, <1>3, <1>4 DEF Next
<1> QED
  BY <1>5 DEF Same

(* How the jobs change in a step.                                          *)
LEMMA PayloadsAreKept ==
  ASSUME WorkflowInv, [Next]_vars
  PROVE  \A j \in DOMAIN jobs : j \in DOMAIN jobs' /\ jobs'[j].revision = jobs[j].revision
<1> DEFINE Same == \A j \in DOMAIN jobs : j \in DOMAIN jobs' /\ jobs'[j].revision = jobs[j].revision
<1>1. jobs' = jobs => Same
  OBVIOUS
<1>2. ASSUME NEW row, jobs' = WithJob(row)
      PROVE  Same
  <2>1. CASE jobs' = jobs
    BY <2>1
  <2>2. CASE jobs' = Append(jobs, row)
    <3>1. jobs \in Seq(Job)
      BY JobRows
    <3> QED
      BY <2>2, <3>1, LenProperties
  <2> QED
    BY <1>2, <2>1, <2>2 DEF WithJob
<1>3. ASSUME NEW k \in DOMAIN jobs, NEW row, row.revision = jobs[k].revision,
             jobs' = [jobs EXCEPT ![k] = row]
      PROVE  Same
  BY <1>3
<1> HIDE DEF Same
<1>4. ASSUME NEW a \in Apis, EnqueuePlan(a) \/ EnqueueAnswer(a)
      PROVE  Same
  BY <1>2, <1>4 DEF EnqueuePlan, EnqueueAnswer
<1>5. ASSUME NEW a \in Apis, RecordResult(a)
      PROVE  Same
  <2> DEFINE k == api[a].row
             row == [jobs[k] EXCEPT !.draft = NoDraft, !.made = api[a].rev]
  <2>1. k \in DOMAIN jobs /\ jobs' = [jobs EXCEPT ![k] = row]
    BY <1>5 DEF RecordResult, WorkflowInv, ProcessesInv, Knows
  <2>2. row.revision = jobs[k].revision
    BY <2>1, JobRows DEF Job
  <2> QED
    BY <1>3, <2>1, <2>2
<1>6. ASSUME NEW w \in Workers, Claim(w)
      PROVE  Same
  <2>1. PICK k \in DOMAIN jobs :
          jobs' = [jobs EXCEPT ![k] = [jobs[k] EXCEPT !.state = "RUNNING", !.worker = w]]
    BY <1>6 DEF Claim
  <2>2. [jobs[k] EXCEPT !.state = "RUNNING", !.worker = w].revision = jobs[k].revision
    BY JobRows DEF Job
  <2> QED
    BY <1>3, <2>1, <2>2
<1>7. ASSUME NEW w \in Workers, FinishJob(w)
      PROVE  Same
  <2> DEFINE k == workers[w]
  <2>1. k \in DOMAIN jobs
    BY <1>7 DEF FinishJob, WorkflowInv, ProcessesInv
  <2>2. CASE jobs' = [jobs EXCEPT ![k] = [jobs[k] EXCEPT !.state = "FAILED"]]
    <3>1. [jobs[k] EXCEPT !.state = "FAILED"].revision = jobs[k].revision
      BY <2>1, JobRows DEF Job
    <3> QED
      BY <1>3, <2>1, <2>2, <3>1
  <2>3. ASSUME NEW draft,
               jobs' = [jobs EXCEPT ![k] = [jobs[k] EXCEPT !.state = "SUCCEEDED", !.draft = draft]]
        PROVE  Same
    <3>1. [jobs[k] EXCEPT !.state = "SUCCEEDED", !.draft = draft].revision = jobs[k].revision
      BY <2>1, JobRows DEF Job
    <3> QED
      BY <1>3, <2>1, <2>3, <3>1
  <2> QED
    BY <1>7, <2>2, <2>3 DEF FinishJob
<1>8. ASSUME NEW a \in Apis, Queue(a) \/ Materialize(a)
      PROVE  Same
  BY <1>1, <1>4, <1>5, <1>8 DEF Queue, Materialize, AskQuestion, ReadJob, MaterializePlan,
     MaterializeAnswer, MaterializeRefused, db
<1>9. ASSUME NEW a \in Apis, Edit(a) \/ Review(a) \/ ApiCrash(a)
      PROVE  Same
  BY <1>1, <1>9 DEF Edit, Review, OpenQuestion, OpenAnswer, EditQuestion, EditAnswer, EditRefused,
     ReviewQuestion, ReviewAnswer, Decide, DecisionRefused, ApiCrash, db
<1>10. (UNCHANGED vars => Same) /\ \A w \in Workers : WorkerCrash(w) => Same
  BY <1>1 DEF vars, WorkerCrash, db
<1>11. Same
  BY <1>6, <1>7, <1>8, <1>9, <1>10 DEF Next
<1> QED
  BY <1>11 DEF Same

(* What an edit of a question, the materialisation of a plan and the       *)
(* decision on a question write.                                           *)
LEMMA QuestionEdited ==
  ASSUME WorkflowInv, NEW a \in Apis, EditQuestion(a)
  PROVE  LET q == api[a].row
             m == Len(questionRevisions)
         IN /\ q \in DOMAIN questions /\ DOMAIN questions' = DOMAIN questions
            /\ questions'[q].current = m + 1 /\ questions'[q].review = "DRAFT"
            /\ \A k \in DOMAIN questions : k # q => questions'[k] = questions[k]
            /\ m \in Nat /\ DOMAIN questionRevisions = 1..m
            /\ DOMAIN questionRevisions' = 1..(m + 1)
            /\ \A r \in 1..m : questionRevisions'[r] = questionRevisions[r]
            /\ questionRevisions'[m + 1].number
                 = questionRevisions[questions[q].current].number + 1
            /\ UNCHANGED <<jobs, answers, answerRevisions>>
<1> DEFINE q == api[a].row
           m == Len(questionRevisions)
           row == [questions[q] EXCEPT !.current = m + 1, !.review = "DRAFT"]
           n == questionRevisions[questions[q].current].number
           new == Revision(q, n + 1, questions[q].current)
<1>1. /\ q \in DOMAIN questions /\ q \in Nat \ {0} /\ m \in Nat
      /\ questions[q] \in Question /\ questions[q].current \in DOMAIN questionRevisions
  BY QuestionRows DEF EditQuestion, WorkflowInv, ProcessesInv, Knows, TablesInv, History
<1>2. n \in Nat /\ questions[q].current \in Nat
  BY <1>1, QuestionRows DEF RevisionRow, Question
<1>3. /\ questions' = [questions EXCEPT ![q] = row]
      /\ questionRevisions' = Append(questionRevisions, new)
      /\ UNCHANGED <<jobs, answers, answerRevisions>>
  BY DEF EditQuestion
<1>4. row \in Question /\ row.current = m + 1 /\ row.review = "DRAFT"
  <2>1. ASSUME NEW v \in Nat \ {0}, NEW o \in Question
        PROVE  LET r == [o EXCEPT !.current = v, !.review = "DRAFT"]
               IN r \in Question /\ r.current = v /\ r.review = "DRAFT"
    BY DEF Question, Reviews
  <2>2. m + 1 \in Nat \ {0}
    BY <1>1
  <2> HIDE DEF m, q
  <2> QED
    BY <1>1, <2>1, <2>2
<1>5. new \in RevisionRow /\ new.number = n + 1
  <2> HIDE DEF q, n
  <2> QED
    BY <1>1, <1>2 DEF Revision, RevisionRow
<1> HIDE DEF q, row, n, new
<1>6. /\ DOMAIN questions' = DOMAIN questions
      /\ questions'[q] = row /\ \A k \in DOMAIN questions : k # q => questions'[k] = questions[k]
  BY <1>1, <1>3, <1>4, QuestionRows, RowChanged
<1>7. /\ DOMAIN questionRevisions' = 1..(m + 1) /\ DOMAIN questionRevisions = 1..m
      /\ questionRevisions'[m + 1] = new
      /\ \A r \in DOMAIN questionRevisions : questionRevisions'[r] = questionRevisions[r]
  BY <1>3, <1>5, QuestionRows, RowAdded
<1> QED
  BY <1>1, <1>3, <1>4, <1>5, <1>6, <1>7 DEF q, n

LEMMA PlanMade ==
  ASSUME WorkflowInv, NEW a \in Apis, MaterializePlan(a)
  PROVE  LET k == Len(questions)
             m == Len(questionRevisions)
         IN /\ k \in Nat /\ m \in Nat /\ PlanSize \in Nat
            /\ DOMAIN questions = 1..k /\ DOMAIN questions' = 1..(k + PlanSize)
            /\ \A i \in 1..k : questions'[i] = questions[i]
            /\ \A i \in 1..PlanSize : /\ questions'[k + i].current = m + i
                                      /\ questions'[k + i].review = "DRAFT"
            /\ DOMAIN questionRevisions = 1..m /\ DOMAIN questionRevisions' = 1..(m + PlanSize)
            /\ \A r \in 1..m : questionRevisions'[r] = questionRevisions[r]
            /\ \A i \in 1..PlanSize : questionRevisions'[m + i].number = 1
            /\ UNCHANGED <<jobs, answers, answerRevisions>>
<1> DEFINE k == Len(questions)
           m == Len(questionRevisions)
           rows == [i \in 1..PlanSize |-> NewQuestion(Len(plans) + 1, m + i)]
           firsts == [i \in 1..PlanSize |-> Revision(k + i, 1, 0)]
<1>1. /\ questions \in Seq(Question) /\ questionRevisions \in Seq(RevisionRow)
      /\ Len(plans) \in Nat /\ k \in Nat /\ m \in Nat /\ PlanSize \in Nat
  BY LenProperties, QuestionWorkflowAssumption DEF WorkflowInv, TablesInv, TablesAreTyped
<1>2. /\ questions' = questions \o rows
      /\ questionRevisions' = questionRevisions \o firsts
      /\ UNCHANGED <<jobs, answers, answerRevisions>>
  BY DEF MaterializePlan
<1>3. /\ rows \in [1..PlanSize -> Question]
      /\ \A i \in 1..PlanSize : rows[i].current = m + i /\ rows[i].review = "DRAFT"
  BY <1>1 DEF NewQuestion, Question, Reviews
<1>4. /\ firsts \in [1..PlanSize -> RevisionRow]
      /\ \A i \in 1..PlanSize : firsts[i].number = 1
  BY <1>1 DEF Revision, RevisionRow
<1> HIDE DEF rows, firsts
<1>5. /\ DOMAIN questions' = 1..(k + PlanSize) /\ DOMAIN questions = 1..k
      /\ \A i \in 1..k : questions'[i] = questions[i]
      /\ \A i \in 1..PlanSize : questions'[k + i] = rows[i]
  <2>1. /\ questions \in Seq(Question) /\ PlanSize \in Nat
        /\ rows \in [1..PlanSize -> Question] /\ questions' = questions \o rows
    BY <1>1, <1>2, <1>3
  <2> QED
    BY <2>1, RowsAdded
<1>6. /\ DOMAIN questionRevisions' = 1..(m + PlanSize) /\ DOMAIN questionRevisions = 1..m
      /\ \A i \in 1..m : questionRevisions'[i] = questionRevisions[i]
      /\ \A i \in 1..PlanSize : questionRevisions'[m + i] = firsts[i]
  BY <1>1, <1>2, <1>4, RowsAdded
<1> HIDE DEF k, m
<1>7. \A i \in 1..PlanSize : /\ questions'[k + i].current = m + i
                             /\ questions'[k + i].review = "DRAFT"
  BY <1>3, <1>5
<1>8. \A i \in 1..PlanSize : questionRevisions'[m + i].number = 1
  BY <1>4, <1>6
<1> QED
  BY <1>1, <1>2, <1>5, <1>6, <1>7, <1>8 DEF k, m

LEMMA QuestionDecided ==
  ASSUME WorkflowInv, NEW a \in Apis, Decide(a), api[a].pc = "REVIEWING_QUESTION"
  PROVE  LET q == api[a].row
         IN /\ q \in DOMAIN questions /\ questions[q].review = "DRAFT"
            /\ DOMAIN questions' = DOMAIN questions
            /\ questions'[q].current = questions[q].current
            /\ questions'[q].review = api[a].status
            /\ \A k \in DOMAIN questions : k # q => questions'[k] = questions[k]
            /\ UNCHANGED <<jobs, questionRevisions, answers, answerRevisions>>
<1> DEFINE q == api[a].row
           row == [questions[q] EXCEPT !.review = api[a].status]
<1>1. /\ q \in DOMAIN questions /\ questions[q].review = "DRAFT"
      /\ questions' = [questions EXCEPT ![q] = row]
      /\ UNCHANGED <<jobs, questionRevisions, answers, answerRevisions>>
  BY DEF Decide, StillReviewable, WorkflowInv, ProcessesInv, Knows
<1>2. row.current = questions[q].current /\ row.review = api[a].status
  BY <1>1, QuestionRows DEF Question
<1> HIDE DEF row
<1> QED
  BY <1>1, <1>2

(* What an edit of an answer, its materialisation and the decision on it   *)
(* write.                                                                  *)
LEMMA AnswerEdited ==
  ASSUME WorkflowInv, NEW a \in Apis, EditAnswer(a)
  PROVE  LET i == api[a].row
             m == Len(answerRevisions)
         IN /\ i \in DOMAIN answers /\ DOMAIN answers' = DOMAIN answers
            /\ answers'[i].current = m + 1 /\ answers'[i].review = "DRAFT"
            /\ answers'[i].question = answers[i].question /\ answers'[i].job = answers[i].job
            /\ \A k \in DOMAIN answers : k # i => answers'[k] = answers[k]
            /\ m \in Nat /\ DOMAIN answerRevisions = 1..m
            /\ \A r \in 1..m : answerRevisions'[r] = answerRevisions[r]
            /\ answerRevisions'[m + 1].number = answerRevisions[answers[i].current].number + 1
            /\ UNCHANGED <<jobs, questions, questionRevisions>>
<1> DEFINE i == api[a].row
           m == Len(answerRevisions)
           n == answerRevisions[answers[i].current].number
<1>1. PICK draft \in ClientAnswers :
        /\ Materializable(draft)
        /\ answerRevisions' = Append(answerRevisions,
             AnswerRevision(i, n + 1, answers[i].current, StoredClaims(draft)))
        /\ answers' = [answers EXCEPT ![i] = [answers[i] EXCEPT !.current = m + 1,
                          !.review = "DRAFT", !.verification = Verification(draft)]]
  BY DEF EditAnswer
<1> DEFINE v == Verification(draft)
           claims == StoredClaims(draft)
           row == [answers[i] EXCEPT !.current = m + 1, !.review = "DRAFT", !.verification = v]
           new == AnswerRevision(i, n + 1, answers[i].current, claims)
<1>2. /\ i \in DOMAIN answers /\ i \in Nat \ {0} /\ m \in Nat
      /\ answers[i] \in Answer /\ answers[i].current \in DOMAIN answerRevisions
  BY AnswerRows DEF EditAnswer, WorkflowInv, ProcessesInv, Knows
<1>3. n \in Nat /\ answers[i].current \in Nat
  BY <1>2, AnswerRows DEF AnswerRevisionRow, Answer
<1>4. claims \in Seq(StoredClaim) /\ v \in {"VERIFIED", "INSUFFICIENT_EVIDENCE"}
  BY <1>1, ClaimsAreStored, QuestionWorkflowAssumption
<1>5. /\ row \in Answer /\ row.current = m + 1 /\ row.review = "DRAFT"
      /\ row.question = answers[i].question /\ row.job = answers[i].job
  <2> DEFINE c == m + 1
             o == answers[i]
  <2>1. c \in Nat \ {0} /\ o \in Answer
    BY <1>2
  <2>2. row = [o EXCEPT !.current = c, !.review = "DRAFT", !.verification = v]
    OBVIOUS
  <2> HIDE DEF c, o, v, row
  <2>3. /\ row \in Answer /\ row.current = c /\ row.review = "DRAFT"
        /\ row.question = o.question /\ row.job = o.job
    BY <1>4, <2>1, <2>2 DEF Answer, Reviews
  <2> QED
    BY <2>3 DEF c, o
<1>6. new \in AnswerRevisionRow /\ new.number = n + 1
  <2> HIDE DEF i, n, claims
  <2> QED
    BY <1>2, <1>3, <1>4 DEF AnswerRevision, AnswerRevisionRow
<1>7. /\ answers' = [answers EXCEPT ![i] = row]
      /\ answerRevisions' = Append(answerRevisions, new)
      /\ UNCHANGED <<jobs, questions, questionRevisions>>
  BY <1>1 DEF EditAnswer
<1> HIDE DEF i, n, v, claims, row, new
<1>8. /\ DOMAIN answers' = DOMAIN answers
      /\ answers'[i] = row /\ \A k \in DOMAIN answers : k # i => answers'[k] = answers[k]
  BY <1>2, <1>5, <1>7, AnswerRows, RowChanged
<1>9. /\ DOMAIN answerRevisions = 1..m /\ answerRevisions'[m + 1] = new
      /\ \A r \in DOMAIN answerRevisions : answerRevisions'[r] = answerRevisions[r]
  BY <1>6, <1>7, AnswerRows, RowAdded
<1> QED
  BY <1>2, <1>5, <1>6, <1>7, <1>8, <1>9 DEF i, n

LEMMA AnswerMade ==
  ASSUME WorkflowInv, NEW a \in Apis, MaterializeAnswer(a)
  PROVE  LET j == api[a].row
             q == jobs[j].question
             k == Len(answers)
             m == Len(answerRevisions)
         IN /\ j \in DOMAIN jobs /\ q \in DOMAIN questions
            /\ questions[q].review = "CONFIRMED" /\ questions[q].current = jobs[j].revision
            /\ k \in Nat /\ m \in Nat
            /\ DOMAIN answers = 1..k /\ DOMAIN answers' = 1..(k + 1)
            /\ \A i \in 1..k : answers'[i] = answers[i]
            /\ answers'[k + 1].question = q /\ answers'[k + 1].job = j
            /\ answers'[k + 1].current = m + 1 /\ answers'[k + 1].review = "DRAFT"
            /\ DOMAIN answerRevisions = 1..m
            /\ \A r \in 1..m : answerRevisions'[r] = answerRevisions[r]
            /\ answerRevisions'[m + 1].number = 1
            /\ UNCHANGED <<jobs, questions, questionRevisions>>
<1> DEFINE j == api[a].row
           q == jobs[j].question
           k == Len(answers)
           m == Len(answerRevisions)
           v == Verification(api[a].draft)
           claims == StoredClaims(api[a].draft)
           row == NewAnswer(q, m + 1, v, j)
           first == AnswerRevision(k + 1, 1, 0, claims)
<1>1. /\ j \in DOMAIN jobs /\ j \in Nat \ {0} /\ jobs[j].kind = "ANSWER_GENERATION"
      /\ api[a].draft \in AnswerDrafts /\ Materializable(api[a].draft)
  BY JobRows DEF MaterializeAnswer, WorkflowInv, ProcessesInv, Knows, Drafts
<1>2. q \in DOMAIN questions /\ q \in Nat \ {0} /\ k \in Nat /\ m \in Nat
  <2>1. k \in Nat /\ m \in Nat
    BY LenProperties DEF WorkflowInv, TablesInv, TablesAreTyped
  <2> QED
    BY <1>1, <2>1, JobRows, QuestionRows DEF JobIsRight
<1>3. questions[q].review = "CONFIRMED" /\ questions[q].current = jobs[j].revision
  BY DEF MaterializeAnswer, StillAsked
<1>4. claims \in Seq(StoredClaim) /\ v \in {"VERIFIED", "INSUFFICIENT_EVIDENCE"}
  BY <1>1, ClaimsAreStored
<1>5. /\ answers' = Append(answers, row) /\ answerRevisions' = Append(answerRevisions, first)
      /\ UNCHANGED <<jobs, questions, questionRevisions>>
  BY DEF MaterializeAnswer
<1> HIDE DEF j, q, v, claims
<1>6. /\ row \in Answer /\ row.question = q /\ row.job = j
      /\ row.current = m + 1 /\ row.review = "DRAFT"
  BY <1>1, <1>2, <1>4 DEF NewAnswer, Answer, Reviews
<1>7. first \in AnswerRevisionRow /\ first.number = 1
  BY <1>2, <1>4 DEF AnswerRevision, AnswerRevisionRow
<1> HIDE DEF row, first
<1>8. /\ DOMAIN answers' = 1..(k + 1) /\ DOMAIN answers = 1..k
      /\ answers'[k + 1] = row /\ \A i \in DOMAIN answers : answers'[i] = answers[i]
  BY <1>5, <1>6, AnswerRows, RowAdded
<1>9. /\ DOMAIN answerRevisions = 1..m /\ answerRevisions'[m + 1] = first
      /\ \A r \in DOMAIN answerRevisions : answerRevisions'[r] = answerRevisions[r]
  BY <1>5, <1>7, AnswerRows, RowAdded
<1> QED
  BY <1>1, <1>2, <1>3, <1>5, <1>6, <1>7, <1>8, <1>9 DEF j, q

LEMMA AnswerDecided ==
  ASSUME WorkflowInv, NEW a \in Apis, Decide(a), api[a].pc = "REVIEWING_ANSWER"
  PROVE  LET i == api[a].row
         IN /\ i \in DOMAIN answers /\ answers[i].review = "DRAFT"
            /\ api[a].status = "CONFIRMED" => Grounded(answerRevisions[answers[i].current].claims)
            /\ DOMAIN answers' = DOMAIN answers
            /\ answers'[i].current = answers[i].current /\ answers'[i].review = api[a].status
            /\ answers'[i].question = answers[i].question /\ answers'[i].job = answers[i].job
            /\ \A k \in DOMAIN answers : k # i => answers'[k] = answers[k]
            /\ UNCHANGED <<jobs, questions, questionRevisions, answerRevisions>>
<1> DEFINE i == api[a].row
           row == [answers[i] EXCEPT !.review = api[a].status]
<1>1. /\ i \in DOMAIN answers /\ answers[i].review = "DRAFT"
      /\ answers[i].current = api[a].rev
      /\ answers' = [answers EXCEPT ![i] = row]
      /\ UNCHANGED <<jobs, questions, questionRevisions, answerRevisions>>
  BY DEF Decide, StillReviewable, WorkflowInv, ProcessesInv, Knows
<1>2. api[a].status = "CONFIRMED" => answers[i].verification = "VERIFIED"
  BY <1>1 DEF WorkflowInv, ProcessesInv, Knows
<1>3. api[a].status = "CONFIRMED" => Grounded(answerRevisions[answers[i].current].claims)
  BY <1>1, <1>2 DEF WorkflowInv, TablesInv, AnswersStand, Stands, Grounded, Range
<1>4. /\ row.current = answers[i].current /\ row.review = api[a].status
      /\ row.question = answers[i].question /\ row.job = answers[i].job
  BY <1>1, AnswerRows DEF Answer
<1> HIDE DEF row
<1> QED
  BY <1>1, <1>3, <1>4

LEMMA WordingsAreKept ==
  ASSUME WorkflowInv, [Next]_vars
  PROVE  Kept
<1> DEFINE Same == \A r \in DOMAIN questionRevisions :
                     r \in DOMAIN questionRevisions' /\ questionRevisions'[r] = questionRevisions[r]
<1>1. questionRevisions' = questionRevisions => Same
  OBVIOUS
<1>2. ASSUME NEW a \in Apis, EditQuestion(a) PROVE Same
  BY <1>2, QuestionEdited
<1>3. ASSUME NEW a \in Apis, MaterializePlan(a) PROVE Same
  <2> DEFINE m == Len(questionRevisions)
  <2>1. /\ m \in Nat /\ PlanSize \in Nat
        /\ DOMAIN questionRevisions = 1..m /\ DOMAIN questionRevisions' = 1..(m + PlanSize)
        /\ \A r \in 1..m : questionRevisions'[r] = questionRevisions[r]
    BY <1>3, PlanMade
  <2> HIDE DEF m
  <2> QED
    BY <2>1
<1>4. ASSUME NEW a \in Apis, MaterializeAnswer(a) \/ EditAnswer(a) \/ Decide(a) PROVE Same
  BY <1>1, <1>4 DEF MaterializeAnswer, EditAnswer, Decide
<1> HIDE DEF Same
<1>5. Same
  BY <1>1, <1>2, <1>3, <1>4, WritingSteps
<1> QED
  BY <1>5, PayloadsAreKept DEF Kept, Same

LEMMA TraceableStep ==
  ASSUME WorkflowInv, AnswersAreTraceable, [Next]_vars
  PROVE  AnswersAreTraceable'
<1>1. ASSUME \A i \in DOMAIN answers' : i \in DOMAIN answers /\ answers'[i].job = answers[i].job
      PROVE  AnswersAreTraceable'
  BY <1>1, WordingsAreKept DEF AnswersAreTraceable, Kept
<1>2. ASSUME answers' = answers PROVE AnswersAreTraceable'
  BY <1>1, <1>2
<1>3. ASSUME NEW a \in Apis, EditAnswer(a) PROVE AnswersAreTraceable'
  BY <1>1, <1>3, AnswerEdited
<1>4. ASSUME NEW a \in Apis, Decide(a), api[a].pc = "REVIEWING_ANSWER"
      PROVE  AnswersAreTraceable'
  BY <1>1, <1>4, AnswerDecided
<1>5. ASSUME NEW a \in Apis, MaterializeAnswer(a) PROVE AnswersAreTraceable'
  <2> DEFINE j == api[a].row
             k == Len(answers)
  <2>1. /\ j \in DOMAIN jobs /\ jobs[j].question \in DOMAIN questions
        /\ questions[jobs[j].question].current = jobs[j].revision
        /\ jobs' = jobs /\ questionRevisions' = questionRevisions
        /\ k \in Nat /\ DOMAIN answers = 1..k /\ DOMAIN answers' = 1..(k + 1)
        /\ answers'[k + 1].job = j /\ \A i \in 1..k : answers'[i] = answers[i]
    BY <1>5, AnswerMade
  <2> HIDE DEF j, k
  <2>2. jobs[j].revision \in DOMAIN questionRevisions
    BY <2>1 DEF WorkflowInv, TablesInv, History
  <2>3. \A i \in DOMAIN answers' : i \in DOMAIN answers \/ i = k + 1
    BY <2>1
  <2> QED
    BY <2>1, <2>2, <2>3 DEF AnswersAreTraceable
<1> QED
  BY <1>2, <1>3, <1>4, <1>5, AnswersChange

(* What is not written looks the same.                                     *)
LEMMA AnswersLookTheSame ==
  ASSUME AnswersAreTraceable, Kept, UNCHANGED <<answers, answerRevisions>>
  PROVE  AnswerView' = AnswerView
BY DEF AnswersAreTraceable, Kept, AnswerView, SeenAnswer

LEMMA QuestionsLookTheSame ==
  ASSUME UNCHANGED <<questions, questionRevisions>>
  PROVE  QuestionView' = QuestionView
BY DEF QuestionView, SeenQuestion

LEMMA EditsReword ==
  ASSUME WorkflowInv, AnswersAreTraceable, Kept, NEW a \in Apis, EditQuestion(a)
  PROVE  api[a].row \in DOMAIN QuestionView /\ Abstract!RewordQuestion(api[a].row)
<1> DEFINE q == api[a].row
           m == Len(questionRevisions)
<1>1. /\ q \in DOMAIN questions /\ DOMAIN questions' = DOMAIN questions
      /\ questions'[q].current = m + 1 /\ questions'[q].review = "DRAFT"
      /\ \A k \in DOMAIN questions : k # q => questions'[k] = questions[k]
      /\ m \in Nat /\ DOMAIN questionRevisions = 1..m
      /\ \A r \in 1..m : questionRevisions'[r] = questionRevisions[r]
      /\ questionRevisions'[m + 1].number = questionRevisions[questions[q].current].number + 1
      /\ UNCHANGED <<answers, answerRevisions>>
  BY QuestionEdited
<1>2. \A k \in DOMAIN questions : questions[k].current \in DOMAIN questionRevisions
  BY DEF WorkflowInv, TablesInv, History
<1> HIDE DEF q, m
<1>3. ASSUME NEW k \in DOMAIN questions
      PROVE  SeenQuestion(k)' = IF k = q THEN Abstract!Reworded(SeenQuestion(q))
                                ELSE SeenQuestion(k)
  BY <1>1, <1>2 DEF SeenQuestion, Abstract!Reworded
<1>4. QuestionView' = [QuestionView EXCEPT ![q] = Abstract!Reworded(@)]
  BY <1>1, <1>3 DEF QuestionView
<1>5. AnswerView' = AnswerView
  BY <1>1, AnswersLookTheSame
<1> QED
  BY <1>1, <1>4, <1>5 DEF Abstract!RewordQuestion, QuestionView, AnswerView, q

LEMMA PlansAreProposals ==
  ASSUME WorkflowInv, AnswersAreTraceable, Kept, NEW a \in Apis, MaterializePlan(a)
  PROVE  Abstract!ProposePlan
<1> DEFINE k == Len(questions)
           m == Len(questionRevisions)
           fresh == [i \in 1..PlanSize |-> Abstract!Proposal]
           Text == [version : Nat, review : Reviews]
<1>1. /\ k \in Nat /\ m \in Nat /\ PlanSize \in Nat
      /\ DOMAIN questions = 1..k /\ DOMAIN questions' = 1..(k + PlanSize)
      /\ \A i \in 1..k : questions'[i] = questions[i]
      /\ \A i \in 1..PlanSize : /\ questions'[k + i].current = m + i
                                /\ questions'[k + i].review = "DRAFT"
      /\ DOMAIN questionRevisions = 1..m
      /\ \A r \in 1..m : questionRevisions'[r] = questionRevisions[r]
      /\ \A i \in 1..PlanSize : questionRevisions'[m + i].number = 1
      /\ UNCHANGED <<answers, answerRevisions>>
  BY PlanMade
<1>2. \A i \in DOMAIN questions : /\ questions[i].current \in DOMAIN questionRevisions
                                  /\ questions[i] \in Question
                                  /\ questionRevisions[questions[i].current] \in RevisionRow
  BY QuestionRows DEF WorkflowInv, TablesInv, History
<1> HIDE DEF k, m
<1>3. /\ QuestionView \in [1..k -> Text] /\ fresh \in [1..PlanSize -> Text]
  <2>1. \A i \in 1..k : SeenQuestion(i) \in Text
    BY <1>1, <1>2 DEF SeenQuestion, RevisionRow, Question
  <2> QED
    BY <1>1, <2>1 DEF QuestionView, Abstract!Proposal, Reviews
<1> HIDE DEF fresh, Text
<1>4. QuestionView \in Seq(Text) /\ Len(QuestionView) = k
  BY <1>1, <1>3, RowsListed
<1>5. /\ DOMAIN (QuestionView \o fresh) = 1..(k + PlanSize)
      /\ QuestionView \o fresh \in Seq(Text)
      /\ \A i \in 1..k : (QuestionView \o fresh)[i] = QuestionView[i]
      /\ \A i \in 1..PlanSize : (QuestionView \o fresh)[k + i] = fresh[i]
  <2>1. /\ QuestionView \in Seq(Text) /\ PlanSize \in Nat
        /\ fresh \in [1..PlanSize -> Text] /\ Len(QuestionView) = k
    BY <1>1, <1>3, <1>4
  <2> HIDE DEF QuestionView
  <2> QED
    BY <2>1, RowsAdded
<1>6. \A i \in DOMAIN questions' : QuestionView'[i] = SeenQuestion(i)'
  BY DEF QuestionView
<1>7. ASSUME NEW i \in 1..k PROVE QuestionView'[i] = QuestionView[i]
  <2>1. i \in DOMAIN questions /\ i \in DOMAIN questions'
    BY <1>1
  <2>2. SeenQuestion(i)' = SeenQuestion(i)
    BY <1>1, <1>2, <2>1 DEF SeenQuestion
  <2> QED
    BY <1>6, <2>1, <2>2 DEF QuestionView
<1>8. ASSUME NEW i \in 1..PlanSize PROVE QuestionView'[k + i] = fresh[i]
  <2>1. k + i \in DOMAIN questions' /\ questionRevisions'[m + i].number = 1
    BY <1>1
  <2>2. questions'[k + i].current = m + i /\ questions'[k + i].review = "DRAFT"
    BY <1>1
  <2>3. ASSUME NEW r \in DOMAIN questions', r = k + i
        PROVE  QuestionView'[r] = Abstract!Proposal
    <3>1. SeenQuestion(r)' = Abstract!Proposal
      BY <2>1, <2>2, <2>3 DEF SeenQuestion, Abstract!Proposal
    <3> QED
      BY <1>6, <3>1
  <2> QED
    BY <2>1, <2>3 DEF fresh
<1>9. QuestionView' = QuestionView \o fresh
  <2>1. ASSUME NEW i \in 1..(k + PlanSize)
        PROVE  QuestionView'[i] = (QuestionView \o fresh)[i]
    <3>1. CASE i \in 1..k
      BY <1>5, <1>7, <3>1
    <3>2. CASE i \notin 1..k
      <4>1. i - k \in 1..PlanSize /\ k + (i - k) = i
        BY <1>1, <3>2
      <4>2. QuestionView'[k + (i - k)] = fresh[i - k]
        BY <1>8, <4>1
      <4>3. (QuestionView \o fresh)[k + (i - k)] = fresh[i - k]
        BY <1>5, <4>1
      <4> QED
        BY <4>1, <4>2, <4>3
    <3> QED
      BY <3>1, <3>2
  <2>2. QuestionView' = [i \in 1..(k + PlanSize) |-> QuestionView'[i]]
    BY <1>1 DEF QuestionView
  <2>3. QuestionView \o fresh = [i \in 1..(k + PlanSize) |-> (QuestionView \o fresh)[i]]
    <3>1. \A t \in Seq(Text) : t = [i \in DOMAIN t |-> t[i]]
      BY LenProperties
    <3> QED
      BY <1>5, <3>1
  <2> QED
    BY <2>1, <2>2, <2>3
<1>10. AnswerView' = AnswerView
  BY <1>1, AnswersLookTheSame
<1> QED
  BY <1>9, <1>10 DEF Abstract!ProposePlan, QuestionView, AnswerView, fresh

LEMMA QuestionDecisionsDecide ==
  ASSUME WorkflowInv, AnswersAreTraceable, Kept, NEW a \in Apis, Decide(a),
         api[a].pc = "REVIEWING_QUESTION"
  PROVE  /\ api[a].row \in DOMAIN QuestionView
         /\ Abstract!DecideQuestion(api[a].row, api[a].status)
<1> DEFINE q == api[a].row
           status == api[a].status
<1>1. /\ q \in DOMAIN questions /\ questions[q].review = "DRAFT"
      /\ DOMAIN questions' = DOMAIN questions
      /\ questions'[q].current = questions[q].current
      /\ questions'[q].review = status
      /\ \A k \in DOMAIN questions : k # q => questions'[k] = questions[k]
      /\ UNCHANGED <<questionRevisions, answers, answerRevisions>>
  BY QuestionDecided
<1> HIDE DEF q, status
<1>2. ASSUME NEW k \in DOMAIN questions
      PROVE  SeenQuestion(k)' = IF k = q THEN Abstract!Decided(SeenQuestion(q), status)
                                ELSE SeenQuestion(k)
  BY <1>1 DEF SeenQuestion, Abstract!Decided
<1>3. QuestionView' = [QuestionView EXCEPT ![q] = Abstract!Decided(@, status)]
  BY <1>1, <1>2 DEF QuestionView
<1>4. QuestionView[q].review = "DRAFT" /\ q \in DOMAIN QuestionView
  BY <1>1 DEF QuestionView, SeenQuestion
<1>5. AnswerView' = AnswerView
  BY <1>1, AnswersLookTheSame
<1> QED
  BY <1>3, <1>4, <1>5 DEF Abstract!DecideQuestion, QuestionView, AnswerView, q, status

(* In a step that leaves the questions alone, what a reader sees of an     *)
(* answer changes only as far as the answer and its revision do.           *)
LEMMA AnswerLooksTheSame ==
  ASSUME WorkflowInv, AnswersAreTraceable, UNCHANGED <<jobs, questionRevisions>>,
         \A r \in DOMAIN answerRevisions : answerRevisions'[r] = answerRevisions[r],
         NEW k \in DOMAIN answers, answers'[k] = answers[k]
  PROVE  SeenAnswer(k)' = SeenAnswer(k)
<1>1. answers[k].current \in DOMAIN answerRevisions
  BY DEF WorkflowInv, TablesInv, History
<1> QED
  BY <1>1 DEF SeenAnswer

LEMMA AnswerReworded ==
  ASSUME NEW q, NEW asked, NEW v, NEW r, NEW h, NEW h2, NEW text,
         text = [question |-> q, asked |-> asked, version |-> v, review |-> r, grounded |-> h]
  PROVE  [Abstract!Reworded(text) EXCEPT !.grounded = h2]
           = [question |-> q, asked |-> asked, version |-> v + 1, review |-> "DRAFT",
              grounded |-> h2]
<1> DEFINE Row(v1, r1, h1) == [question |-> q, asked |-> asked, version |-> v1, review |-> r1,
                               grounded |-> h1]
<1>1. ASSUME NEW v1, NEW r1, NEW h1, NEW x, NEW t, t = Row(v1, r1, h1)
      PROVE  /\ [t EXCEPT !.version = x] = Row(x, r1, h1)
             /\ [t EXCEPT !.review = x] = Row(v1, x, h1)
             /\ [t EXCEPT !.grounded = x] = Row(v1, r1, x)
  BY <1>1
<1>2. text = Row(v, r, h) /\ text.version = v
  OBVIOUS
<1> HIDE DEF Row
<1> DEFINE next == [text EXCEPT !.version = text.version + 1]
           draft == Abstract!Reworded(text)
<1>3. next = Row(v + 1, r, h)
  BY <1>1, <1>2
<1>4. draft = [next EXCEPT !.review = "DRAFT"]
  BY DEF Abstract!Reworded
<1> HIDE DEF next, draft
<1>5. draft = Row(v + 1, "DRAFT", h)
  BY <1>1, <1>3, <1>4
<1>6. [draft EXCEPT !.grounded = h2] = Row(v + 1, "DRAFT", h2)
  BY <1>1, <1>5
<1> QED
  BY <1>6 DEF Row, draft

LEMMA EditsRewordAnswers ==
  ASSUME WorkflowInv, AnswersAreTraceable, NEW a \in Apis, EditAnswer(a)
  PROVE  /\ api[a].row \in DOMAIN AnswerView
         /\ \E grounded \in BOOLEAN : Abstract!RewordAnswer(api[a].row, grounded)
<1> DEFINE i == api[a].row
           m == Len(answerRevisions)
           old == answerRevisions[answers[i].current]
<1>1. /\ i \in DOMAIN answers /\ DOMAIN answers' = DOMAIN answers
      /\ answers'[i].current = m + 1 /\ answers'[i].review = "DRAFT"
      /\ answers'[i].question = answers[i].question /\ answers'[i].job = answers[i].job
      /\ \A k \in DOMAIN answers : k # i => answers'[k] = answers[k]
      /\ DOMAIN answerRevisions = 1..m
      /\ \A r \in 1..m : answerRevisions'[r] = answerRevisions[r]
      /\ answerRevisions'[m + 1].number = old.number + 1
      /\ UNCHANGED <<jobs, questions, questionRevisions>>
  BY AnswerEdited
<1> DEFINE g == Grounded(answerRevisions'[m + 1].claims)
<1>2. g \in BOOLEAN
  BY DEF Grounded
<1>3. SeenAnswer(i) = [question |-> answers[i].question,
                       asked |-> questionRevisions[jobs[answers[i].job].revision].number,
                       version |-> old.number, review |-> answers[i].review,
                       grounded |-> Grounded(old.claims)]
  BY DEF SeenAnswer
<1> DEFINE new == [question |-> answers[i].question,
                   asked |-> questionRevisions[jobs[answers[i].job].revision].number,
                   version |-> old.number + 1, review |-> "DRAFT", grounded |-> g]
<1>4. new = [Abstract!Reworded(SeenAnswer(i)) EXCEPT !.grounded = g]
  <2> HIDE DEF i, m, old, g
  <2> QED
    BY <1>3, AnswerReworded
<1>5. AnswerView'[i] = new
  <2>1. ASSUME NEW k \in DOMAIN answers, k = i
        PROVE  SeenAnswer(k)' = new
    <3> HIDE DEF i, m, old
    <3> QED
      BY <1>1, <2>1 DEF SeenAnswer
  <2> HIDE DEF i, m, old, g, new
  <2> QED
    BY <1>1, <2>1 DEF AnswerView
<1>6. ASSUME NEW k \in DOMAIN answers, k # i
      PROVE  AnswerView'[k] = AnswerView[k]
  <2> HIDE DEF i, m, old
  <2>1. SeenAnswer(k)' = SeenAnswer(k)
    BY <1>1, <1>6, AnswerLooksTheSame
  <2> QED
    BY <1>1, <2>1 DEF AnswerView
<1> HIDE DEF i, m, old, g, new
<1>7. AnswerView' = [AnswerView EXCEPT ![i] = [Abstract!Reworded(@) EXCEPT !.grounded = g]]
  <2>1. DOMAIN AnswerView' = DOMAIN answers /\ DOMAIN AnswerView = DOMAIN answers
    BY <1>1 DEF AnswerView
  <2>2. AnswerView[i] = SeenAnswer(i)
    BY <1>1 DEF AnswerView
  <2>3. AnswerView' = [k \in DOMAIN answers |-> AnswerView'[k]]
    BY <1>1 DEF AnswerView
  <2> HIDE DEF Abstract!Reworded
  <2> QED
    BY <1>1, <1>4, <1>5, <1>6, <2>1, <2>2, <2>3
<1>8. QuestionView' = QuestionView
  BY <1>1, QuestionsLookTheSame
<1>9. Abstract!RewordAnswer(i, g)
  BY <1>7, <1>8 DEF Abstract!RewordAnswer, QuestionView, AnswerView
<1> QED
  BY <1>1, <1>2, <1>9 DEF AnswerView, i

LEMMA AnswerDecisionsDecide ==
  ASSUME WorkflowInv, AnswersAreTraceable, NEW a \in Apis, Decide(a),
         api[a].pc = "REVIEWING_ANSWER"
  PROVE  /\ api[a].row \in DOMAIN AnswerView
         /\ Abstract!DecideAnswer(api[a].row, api[a].status)
<1> DEFINE i == api[a].row
           status == api[a].status
<1>1. /\ i \in DOMAIN answers /\ answers[i].review = "DRAFT"
      /\ status = "CONFIRMED" => Grounded(answerRevisions[answers[i].current].claims)
      /\ DOMAIN answers' = DOMAIN answers
      /\ answers'[i].current = answers[i].current /\ answers'[i].review = status
      /\ answers'[i].question = answers[i].question /\ answers'[i].job = answers[i].job
      /\ \A k \in DOMAIN answers : k # i => answers'[k] = answers[k]
      /\ UNCHANGED <<jobs, questions, questionRevisions, answerRevisions>>
  BY AnswerDecided
<1> HIDE DEF i, status
<1>2. ASSUME NEW k \in DOMAIN answers
      PROVE  SeenAnswer(k)' = IF k = i THEN Abstract!Decided(SeenAnswer(i), status)
                              ELSE SeenAnswer(k)
  <2>1. CASE k = i
    BY <1>1, <2>1 DEF SeenAnswer, Abstract!Decided
  <2>2. CASE k # i
    BY <1>1, <2>2, AnswerLooksTheSame
  <2> QED
    BY <2>1, <2>2
<1>3. AnswerView' = [AnswerView EXCEPT ![i] = Abstract!Decided(@, status)]
  BY <1>1, <1>2 DEF AnswerView
<1>4. /\ i \in DOMAIN AnswerView /\ AnswerView[i].review = "DRAFT"
      /\ status = "CONFIRMED" => AnswerView[i].grounded
  BY <1>1 DEF AnswerView, SeenAnswer
<1>5. QuestionView' = QuestionView
  BY <1>1, QuestionsLookTheSame
<1> QED
  BY <1>3, <1>4, <1>5 DEF Abstract!DecideAnswer, QuestionView, AnswerView, i, status

LEMMA MaterializationsAnswer ==
  ASSUME WorkflowInv, AnswersAreTraceable, NEW a \in Apis, MaterializeAnswer(a)
  PROVE  \E q \in DOMAIN QuestionView, grounded \in BOOLEAN : Abstract!Answer(q, grounded)
<1> DEFINE j == api[a].row
           q == jobs[j].question
           k == Len(answers)
           m == Len(answerRevisions)
           g == Grounded(answerRevisions'[m + 1].claims)
           new == [question |-> q, asked |-> QuestionView[q].version,
                   version |-> 1, review |-> "DRAFT", grounded |-> g]
           Views == {AnswerView[i] : i \in DOMAIN answers} \cup {new}
<1>1. /\ j \in DOMAIN jobs /\ q \in DOMAIN questions
      /\ questions[q].review = "CONFIRMED" /\ questions[q].current = jobs[j].revision
      /\ k \in Nat /\ DOMAIN answers = 1..k /\ DOMAIN answers' = 1..(k + 1)
      /\ \A i \in 1..k : answers'[i] = answers[i]
      /\ answers'[k + 1].question = q /\ answers'[k + 1].job = j
      /\ answers'[k + 1].current = m + 1 /\ answers'[k + 1].review = "DRAFT"
      /\ DOMAIN answerRevisions = 1..m
      /\ \A r \in 1..m : answerRevisions'[r] = answerRevisions[r]
      /\ answerRevisions'[m + 1].number = 1
      /\ UNCHANGED <<jobs, questions, questionRevisions>>
  BY AnswerMade
<1>2. g \in BOOLEAN
  BY DEF Grounded
<1> HIDE DEF j, q, k, m
<1>3. /\ QuestionView[q].version = questionRevisions[jobs[j].revision].number
      /\ QuestionView[q].review = "CONFIRMED" /\ q \in DOMAIN QuestionView
  BY <1>1 DEF QuestionView, SeenQuestion
<1>4. AnswerView \in [1..k -> Views]
  BY <1>1 DEF AnswerView
<1> HIDE DEF Views
<1>5. AnswerView \in Seq(Views) /\ Len(AnswerView) = k
  BY <1>1, <1>4, RowsListed
<1>6. new \in Views
  BY DEF Views
<1>7. /\ Append(AnswerView, new) \in Seq(Views)
      /\ DOMAIN Append(AnswerView, new) = 1..(k + 1)
      /\ Append(AnswerView, new)[k + 1] = new
      /\ \A i \in 1..k : Append(AnswerView, new)[i] = AnswerView[i]
  <2> HIDE DEF new
  <2> QED
    BY <1>5, <1>6, RowAdded
<1>8. \A i \in DOMAIN answers' : AnswerView'[i] = SeenAnswer(i)'
  BY DEF AnswerView
<1>9. AnswerView'[k + 1] = new
  <2>1. ASSUME NEW i \in DOMAIN answers', i = k + 1
        PROVE  AnswerView'[i] = new
    <3>1. SeenAnswer(i)' = new
      BY <1>1, <1>3, <2>1 DEF SeenAnswer
    <3> QED
      BY <1>8, <3>1
  <2> HIDE DEF new
  <2> QED
    BY <1>1, <2>1
<1>10. ASSUME NEW i \in 1..k PROVE AnswerView'[i] = AnswerView[i]
  <2>1. i \in DOMAIN answers' /\ i \in DOMAIN answers /\ answers'[i] = answers[i]
    BY <1>1
  <2>2. SeenAnswer(i)' = SeenAnswer(i)
    BY <1>1, <2>1, AnswerLooksTheSame
  <2> QED
    BY <1>8, <2>1, <2>2 DEF AnswerView
<1> HIDE DEF g, new
<1>11. AnswerView' = Append(AnswerView, new)
  <2>1. ASSUME NEW i \in 1..(k + 1)
        PROVE  AnswerView'[i] = Append(AnswerView, new)[i]
    <3>1. i \in 1..k \/ i = k + 1
      BY <1>1
    <3> QED
      BY <1>7, <1>9, <1>10, <3>1
  <2>2. AnswerView' = [i \in 1..(k + 1) |-> AnswerView'[i]]
    BY <1>1 DEF AnswerView
  <2>3. \A t \in Seq(Views) : t = [i \in DOMAIN t |-> t[i]]
    BY LenProperties
  <2> QED
    BY <1>7, <2>1, <2>2, <2>3
<1>12. QuestionView' = QuestionView
  BY <1>1, QuestionsLookTheSame
<1>13. Abstract!Answer(q, g)
  BY <1>3, <1>11, <1>12 DEF Abstract!Answer, QuestionView, AnswerView, new
<1> QED
  BY <1>2, <1>3, <1>13

LEMMA RequestsStep ==
  ASSUME WorkflowInv, RequestsDecide, [Next]_vars
  PROVE  RequestsDecide'
<1> DEFINE Deciding(c) == c.pc \in {"REVIEWING_QUESTION", "REVIEWING_ANSWER"}
<1>1. api \in [Apis -> Calls]
  BY DEF WorkflowInv, ProcessesInv
<1>2. ASSUME NEW a \in Apis, NEW c, api' = [api EXCEPT ![a] = c],
             Deciding(c) => c.status \in {"CONFIRMED", "REJECTED"}
      PROVE  RequestsDecide'
  BY <1>1, <1>2 DEF RequestsDecide
<1>3. api' = api => RequestsDecide'
  BY DEF RequestsDecide
<1>4. ASSUME NEW a \in Apis, Ends(a)
      PROVE  RequestsDecide'
  BY <1>2, <1>4 DEF Ends, Idle, Call
<1>5. ASSUME NEW a \in Apis, NEW pc \in {"RECORDING", "ASKING", "EDITING_QUESTION", "EDITING_ANSWER"},
             NEW row, NEW rev, api' = [api EXCEPT ![a] = Call(pc, row, rev)]
      PROVE  RequestsDecide'
  BY <1>2, <1>5 DEF Call
<1>6. ASSUME NEW a \in Apis, NEW j \in DOMAIN jobs, ReadJob(a, j)
      PROVE  RequestsDecide'
  <2> DEFINE c == [Call("MATERIALIZING", j, 0) EXCEPT !.draft = jobs[j].draft]
  <2>1. ~Deciding(c)
    BY DEF Call
  <2>2. api' = [api EXCEPT ![a] = c]
    BY <1>6 DEF ReadJob, Starts
  <2> HIDE DEF c
  <2> QED
    BY <1>2, <2>1, <2>2
<1>7. ASSUME NEW a \in Apis, NEW pc, NEW row, NEW rev, NEW status \in {"CONFIRMED", "REJECTED"},
             Starts(a, [Call(pc, row, rev) EXCEPT !.status = status])
      PROVE  RequestsDecide'
  <2> DEFINE c == [Call(pc, row, rev) EXCEPT !.status = status]
  <2>1. c.status = status
    BY DEF Call
  <2>2. api' = [api EXCEPT ![a] = c]
    BY <1>7 DEF Starts
  <2> HIDE DEF c
  <2> QED
    BY <1>2, <2>1, <2>2
<1> HIDE DEF Deciding
<1>8. ASSUME NEW a \in Apis, Queue(a)
      PROVE  RequestsDecide'
  BY <1>3, <1>4, <1>5, <1>8 DEF Queue, EnqueuePlan, AskQuestion, EnqueueAnswer, Starts
<1>9. ASSUME NEW a \in Apis, Materialize(a)
      PROVE  RequestsDecide'
  BY <1>4, <1>5, <1>6, <1>9 DEF Materialize, MaterializePlan, MaterializeAnswer,
     MaterializeRefused, RecordResult
<1>10. ASSUME NEW a \in Apis, Edit(a)
       PROVE  RequestsDecide'
  BY <1>4, <1>5, <1>10 DEF Edit, OpenQuestion, OpenAnswer, EditQuestion, EditAnswer, EditRefused,
     Starts
<1>11. ASSUME NEW a \in Apis, Review(a) \/ ApiCrash(a)
       PROVE  RequestsDecide'
  BY <1>4, <1>7, <1>11 DEF Review, ReviewQuestion, ReviewAnswer, Decide, DecisionRefused, ApiCrash
<1>12. ASSUME NEW w \in Workers, Claim(w) \/ FinishJob(w) \/ WorkerCrash(w)
       PROVE  RequestsDecide'
  BY <1>3, <1>12 DEF Claim, FinishJob, WorkerCrash
<1>13. UNCHANGED vars => RequestsDecide'
  BY <1>3 DEF vars
<1> QED
  BY <1>8, <1>9, <1>10, <1>11, <1>12, <1>13 DEF Next

(* Every step of the workflow is one of the reviewed work or shows the     *)
(* reader nothing.                                                         *)
LEMMA ReviewStep ==
  ASSUME WorkflowInv, AnswersAreTraceable, RequestsDecide, [Next]_vars
  PROVE  Abstract!Next \/ UNCHANGED <<QuestionView, AnswerView>>
<1>1. Kept
  BY WordingsAreKept
<1>2. ASSUME UNCHANGED <<questions, questionRevisions, answers, answerRevisions>>
      PROVE  UNCHANGED <<QuestionView, AnswerView>>
  BY <1>1, <1>2, AnswersLookTheSame, QuestionsLookTheSame
<1>3. ASSUME NEW a \in Apis, MaterializePlan(a) PROVE Abstract!Next
  BY <1>1, <1>3, PlansAreProposals DEF Abstract!Next
<1>4. ASSUME NEW a \in Apis, EditQuestion(a) PROVE Abstract!Next
  BY <1>1, <1>4, EditsReword DEF Abstract!Next, QuestionView
<1>5. ASSUME NEW a \in Apis, EditAnswer(a) PROVE Abstract!Next
  BY <1>5, EditsRewordAnswers DEF Abstract!Next, AnswerView
<1>6. ASSUME NEW a \in Apis, MaterializeAnswer(a) PROVE Abstract!Next
  BY <1>6, MaterializationsAnswer DEF Abstract!Next, QuestionView
<1>7. ASSUME NEW a \in Apis, Decide(a) PROVE Abstract!Next
  <2>1. api[a].status \in {"CONFIRMED", "REJECTED"}
    BY <1>7 DEF RequestsDecide, Decide
  <2>2. CASE api[a].pc = "REVIEWING_QUESTION"
    BY <1>1, <1>7, <2>1, <2>2, QuestionDecisionsDecide DEF Abstract!Next, QuestionView
  <2>3. CASE api[a].pc = "REVIEWING_ANSWER"
    BY <1>7, <2>1, <2>3, AnswerDecisionsDecide DEF Abstract!Next, AnswerView
  <2> QED
    BY <1>7, <2>2, <2>3 DEF Decide
<1> QED
  BY <1>2, <1>3, <1>4, <1>5, <1>6, <1>7, WritingSteps

(* QuestionWorkflow implements ReviewedWork, for any numbers of processes, *)
(* plans, questions, answers and revisions and whichever process dies: a   *)
(* wording is answered only while it is confirmed and is undecided again   *)
(* as soon as it is edited, and an answer is confirmed only with evidence  *)
(* (editQuestion, editAnswer, createAnswer and the setters of the status). *)
THEOREM QuestionsAndAnswersAreReviewed == Spec => WorkIsReviewed
<1> DEFINE ReviewInv == WorkflowInv /\ AnswersAreTraceable /\ RequestsDecide
<1>1. Init => AnswersAreTraceable /\ RequestsDecide
  BY DEF Init, AnswersAreTraceable, RequestsDecide, Idle, Call
<1>2. ReviewInv /\ [Next]_vars => ReviewInv'
  BY WorkflowInvStep, TraceableStep, RequestsStep
<1>3. Init => Abstract!Init
  BY DEF Init, Abstract!Init
<1>4. ReviewInv /\ [Next]_vars => [Abstract!Next]_<<QuestionView, AnswerView>>
  BY ReviewStep
<1>5. Init => ReviewInv
  BY <1>1, WorkflowInvInit
<1> HIDE DEF ReviewInv
<1> QED
  BY <1>2, <1>3, <1>4, <1>5, PTL DEF Spec, WorkIsReviewed, Abstract!Spec, QuestionView, AnswerView
=============================================================================
