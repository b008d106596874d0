-------------------------- MODULE NativeCallsProofs --------------------------
(***************************************************************************)
(* Theorems about NativeCalls, for any number of tasks, wrappers and       *)
(* channels and any set of the twelve operations.                          *)
(*                                                                         *)
(* The invariant says who holds which wrapper, and what the stage of a     *)
(* call tells of its outputs and of the message of its thread.             *)
(***************************************************************************)
EXTENDS NativeCalls, TLAPS

Stages == {"declare", "operate", "destroy", "raise", "install", "return"}
Texts == Diagnostics \cup {Quiet}
CallsOf(op) == [at : Stages, op : {op}, result : Handles(op), outs : Handles(op),
                saved : Texts]
Outcomes == {NoOutcome} \cup
            [kind : {"value", "exception"}, op : Operations, cause : Texts, text : Texts]

\* The same types as TypeOK, as function sets.
Types ==
    /\ live \subseteq Wrappers
    /\ message \in [Tasks -> Texts]
    /\ call \in [Tasks -> {NoCall} \cup UNION {CallsOf(op) : op \in Operations}]
    /\ owned \in [Tasks -> SUBSET Wrappers]
    /\ outcome \in [Tasks -> Outcomes]

\* A task holds allocated wrappers, and each of them alone.
Ownership ==
    \A t \in Tasks :
        /\ Held(t) \subseteq live
        /\ \A u \in Tasks \ {t} : Held(t) \cap Held(u) = {}

Late(t) == Body(call[t].op).late
Made(t) == Taken(call[t].outs)
Declared(t) == Taken(call[t].result)

\* What the stage of a call says of the wrappers it holds.
StageHolds(t) ==
    /\ call[t] # NoCall => owned[t] = {}
    /\ call[t].at \in {"operate", "destroy", "raise"} => Made(t) = {}
    /\ call[t].at = "declare" /\ ~ Late(t) => Made(t) = {}
    /\ call[t].at = "operate" /\ Late(t) => Declared(t) = {}
    /\ call[t].at \in {"declare", "install"} => Made(t) \cap Declared(t) = {}
    /\ call[t].at = "return" => call[t].result = call[t].outs

\* Where the diagnostic of a call that failed is.
StageSays(t) ==
    /\ call[t].at = "destroy" =>
          message[t] = Failure(t, "operate") /\ Body(call[t].op).cleanup # "none"
    /\ call[t].at = "raise" =>
          LET cleanup == Body(call[t].op).cleanup
          IN  /\ cleanup = "none" => message[t] = Failure(t, "operate")
              /\ cleanup = "destroy" => message[t] = Quiet
              /\ cleanup = "copy_destroy" => call[t].saved = Failure(t, "operate")

IInv ==
    /\ Types
    /\ Ownership
    /\ \A t \in Tasks : StageHolds(t) /\ StageSays(t)
    /\ DiagnosticIsOwn

-----------------------------------------------------------------------------
(***************************************************************************)
(* The operations.                                                         *)
(***************************************************************************)
\* What the steps need to know of the twelve bindings.
LEMMA Bodies ==
    ASSUME NEW op \in Operations
    PROVE  /\ Body(op).shim.outputs \in Nat \ {0}
           /\ Body(op).shim.optional => Body(op).late
           /\ Body(op).cleanup \in {"none", "destroy", "copy_destroy"}
           /\ op \in {"Split", "K_Means", "K_Nearest_Neighbors"} => Body(op).cleanup = "none"
           /\ op = "Solve_Linear_Program" => Body(op).cleanup = "copy_destroy"
<1>1. op \in AllOperations /\ Channels \in Nat \ {0}
      BY CallsAssumption
<1>2. CASE op = "Split"
  <2>1. Body(op) = Split
        BY <1>2 DEF Body
  <2>2. Body(op).shim.outputs \in Nat \ {0}
        BY <1>1, <2>1 DEF Split, Binding, Shim, mat_split
  <2>3. Body(op).shim.optional => Body(op).late
        BY <2>1 DEF Split, Binding, Shim, mat_split
  <2>4. Body(op).cleanup = "none"
        BY <2>1 DEF Split, Binding
  <2> QED  BY <1>2, <2>2, <2>3, <2>4
<1>3. CASE op = "K_Means"
  <2>1. Body(op) = K_Means
        BY <1>3 DEF Body
  <2>2. Body(op).shim.outputs \in Nat \ {0}
        BY <1>1, <2>1 DEF K_Means, Binding, Shim, mat_kmeans
  <2>3. Body(op).shim.optional => Body(op).late
        BY <2>1 DEF K_Means, Binding, Shim, mat_kmeans
  <2>4. Body(op).cleanup = "none"
        BY <2>1 DEF K_Means, Binding
  <2> QED  BY <1>3, <2>2, <2>3, <2>4
<1>4. CASE op = "K_Nearest_Neighbors"
  <2>1. Body(op) = K_Nearest_Neighbors
        BY <1>4 DEF Body
  <2>2. Body(op).shim.outputs \in Nat \ {0}
        BY <1>1, <2>1 DEF K_Nearest_Neighbors, Binding, Shim, mat_batch_distance
  <2>3. Body(op).shim.optional => Body(op).late
        BY <2>1 DEF K_Nearest_Neighbors, Binding, Shim, mat_batch_distance
  <2>4. Body(op).cleanup = "none"
        BY <2>1 DEF K_Nearest_Neighbors, Binding
  <2> QED  BY <1>4, <2>2, <2>3, <2>4
<1>5. CASE op = "Extract_Channel"
  <2>1. Body(op) = Extract_Channel
        BY <1>5 DEF Body
  <2>2. Body(op).shim.outputs \in Nat \ {0}
        BY <1>1, <2>1 DEF Extract_Channel, Binding, Shim, mat_extract_channel
  <2>3. Body(op).shim.optional => Body(op).late
        BY <2>1 DEF Extract_Channel, Binding, Shim, mat_extract_channel
  <2>4. Body(op).cleanup = "destroy"
        BY <2>1 DEF Extract_Channel, Binding
  <2> QED  BY <1>5, <2>2, <2>3, <2>4
<1>6. CASE op = "Cart_To_Polar"
  <2>1. Body(op) = Cart_To_Polar
        BY <1>6 DEF Body
  <2>2. Body(op).shim.outputs \in Nat \ {0}
        BY <1>1, <2>1 DEF Cart_To_Polar, Binding, Shim, mat_cart_to_polar
  <2>3. Body(op).shim.optional => Body(op).late
        BY <2>1 DEF Cart_To_Polar, Binding, Shim, mat_cart_to_polar
  <2>4. Body(op).cleanup = "destroy"
        BY <2>1 DEF Cart_To_Polar, Binding
  <2> QED  BY <1>6, <2>2, <2>3, <2>4
<1>7. CASE op = "Covariance"
  <2>1. Body(op) = Covariance
        BY <1>7 DEF Body
  <2>2. Body(op).shim.outputs \in Nat \ {0}
        BY <1>1, <2>1 DEF Covariance, Binding, Shim, mat_covariance
  <2>3. Body(op).shim.optional => Body(op).late
        BY <2>1 DEF Covariance, Binding, Shim, mat_covariance
  <2>4. Body(op).cleanup = "destroy"
        BY <2>1 DEF Covariance, Binding
  <2> QED  BY <1>7, <2>2, <2>3, <2>4
<1>8. CASE op = "Eigen_Decomposition"
  <2>1. Body(op) = Eigen_Decomposition
        BY <1>8 DEF Body
  <2>2. Body(op).shim.outputs \in Nat \ {0}
        BY <1>1, <2>1 DEF Eigen_Decomposition, Binding, Shim, mat_eigen_decomposition
  <2>3. Body(op).shim.optional => Body(op).late
        BY <2>1 DEF Eigen_Decomposition, Binding, Shim, mat_eigen_decomposition
  <2>4. Body(op).cleanup = "destroy"
        BY <2>1 DEF Eigen_Decomposition, Binding
  <2> QED  BY <1>8, <2>2, <2>3, <2>4
<1>9. CASE op = "Singular_Value_Decomposition"
  <2>1. Body(op) = Singular_Value_Decomposition
        BY <1>9 DEF Body
  <2>2. Body(op).shim.outputs \in Nat \ {0}
        BY <1>1, <2>1 DEF Singular_Value_Decomposition, Binding, Shim,
                          mat_singular_value_decomposition
  <2>3. Body(op).shim.optional => Body(op).late
        BY <2>1 DEF Singular_Value_Decomposition, Binding, Shim,
                    mat_singular_value_decomposition
  <2>4. Body(op).cleanup = "destroy"
        BY <2>1 DEF Singular_Value_Decomposition, Binding
  <2> QED  BY <1>9, <2>2, <2>3, <2>4
<1>10. CASE op = "Invert"
  <2>1. Body(op) = Invert
        BY <1>10 DEF Body
  <2>2. Body(op).shim.outputs \in Nat \ {0}
        BY <1>1, <2>1 DEF Invert, Binding, Shim, mat_invert
  <2>3. Body(op).shim.optional => Body(op).late
        BY <2>1 DEF Invert, Binding, Shim, mat_invert
  <2>4. Body(op).cleanup = "destroy"
        BY <2>1 DEF Invert, Binding
  <2> QED  BY <1>10, <2>2, <2>3, <2>4
<1>11. CASE op = "Solve"
  <2>1. Body(op) = Solve
        BY <1>11 DEF Body
  <2>2. Body(op).shim.outputs \in Nat \ {0}
        BY <1>1, <2>1 DEF Solve, Binding, Shim, mat_solve
  <2>3. Body(op).shim.optional => Body(op).late
        BY <2>1 DEF Solve, Binding, Shim, mat_solve
  <2>4. Body(op).cleanup = "destroy"
        BY <2>1 DEF Solve, Binding
  <2> QED  BY <1>11, <2>2, <2>3, <2>4
<1>12. CASE op = "Solve_Cubic"
  <2>1. Body(op) = Solve_Cubic
        BY <1>12 DEF Body
  <2>2. Body(op).shim.outputs \in Nat \ {0}
        BY <1>1, <2>1 DEF Solve_Cubic, Binding, Shim, mat_solve_cubic
  <2>3. Body(op).shim.optional => Body(op).late
        BY <2>1 DEF Solve_Cubic, Binding, Shim, mat_solve_cubic
  <2>4. Body(op).cleanup = "destroy"
        BY <2>1 DEF Solve_Cubic, Binding
  <2> QED  BY <1>12, <2>2, <2>3, <2>4
<1>13. CASE op = "Solve_Linear_Program"
  <2>1. Body(op) = Solve_Linear_Program
        BY <1>13 DEF Body
  <2>2. Body(op).shim.outputs \in Nat \ {0}
        BY <1>1, <2>1 DEF Solve_Linear_Program, Binding, Shim, solve_linear_program
  <2>3. Body(op).shim.optional => Body(op).late
        BY <2>1 DEF Solve_Linear_Program, Binding, Shim, solve_linear_program
  <2>4. Body(op).cleanup = "copy_destroy"
        BY <2>1 DEF Solve_Linear_Program, Binding
  <2> QED  BY <1>13, <2>2, <2>3, <2>4
<1> QED
    BY <1>1, <1>2, <1>3, <1>4, <1>5, <1>6, <1>7, <1>8, <1>9, <1>10, <1>11, <1>12, <1>13
       DEF AllOperations

\* A call that has begun is a record of its operation.
LEMMA Calling ==
    ASSUME Types, NEW t \in Tasks, call[t].at \in Stages
    PROVE  /\ call[t] \in CallsOf(call[t].op)
           /\ call[t].op \in Operations
           /\ call[t] # NoCall
BY DEF Types, NoCall, Stages, CallsOf

\* The handles of an operation, taken together, are wrappers.
LEMMA TakenAreWrappers ==
    ASSUME NEW op, NEW h \in Handles(op)
    PROVE  /\ Taken(h) \subseteq Wrappers
           /\ Taken(h) = {h[i] : i \in Outputs(op)} \ {Null}
BY DEF Handles, Taken

LEMMA NullsTaken ==
    ASSUME NEW op
    PROVE  Nulls(op) \in Handles(op) /\ Taken(Nulls(op)) = {}
BY DEF Nulls, Handles, Taken

LEMMA NoCallHolds ==
    Taken(NoCall.result) = {} /\ Taken(NoCall.outs) = {} /\ NoCall.at \notin Stages
BY DEF NoCall, Taken, Stages

-----------------------------------------------------------------------------
(***************************************************************************)
(* One task's step cannot disturb what another holds: it frees what it     *)
(* holds itself and takes what nobody does.                                *)
(***************************************************************************)
Touches(t) ==
    /\ call' = [call EXCEPT ![t] = call'[t]]
    /\ message' = [message EXCEPT ![t] = message'[t]]
    /\ owned' = [owned EXCEPT ![t] = owned'[t]]
    /\ outcome' = [outcome EXCEPT ![t] = outcome'[t]]

Others(t) == \A u \in Tasks \ {t} :
    /\ call'[u] = call[u] /\ owned'[u] = owned[u]
    /\ message'[u] = message[u] /\ outcome'[u] = outcome[u]

\* What one outcome must be for DiagnosticIsOwn.
OwnText(o) == o.kind = "exception" =>
    /\ o.text \in {o.cause, Quiet}
    /\ o.op \in {"Split", "K_Means", "K_Nearest_Neighbors", "Solve_Linear_Program"}
       => o.text = o.cause

\* The part of the invariant that is about one task.
Well(t) ==
    /\ live \subseteq Wrappers
    /\ message[t] \in Texts
    /\ call[t] \in {NoCall} \cup UNION {CallsOf(op) : op \in Operations}
    /\ owned[t] \subseteq Wrappers
    /\ outcome[t] \in Outcomes
    /\ StageHolds(t) /\ StageSays(t)
    /\ OwnText(outcome[t])

\* What every step of a task does to the wrappers.
Trades(t) ==
    /\ Held(t)' \subseteq live'
    /\ live \ Held(t) \subseteq live'
    /\ Held(t)' \cap live \subseteq Held(t)

\* What is allocated and not held any more was not held by this task before.
KeepsHold(t) ==
    live' \subseteq (live \ Held(t)) \cup Held(t)'

LEMMA TouchesOneTask ==
    ASSUME Types, NEW t \in Tasks, Touches(t)
    PROVE  Others(t)
BY DEF Types, Touches, Others

LEMMA OwnershipStep ==
    ASSUME Ownership, NEW t \in Tasks, Others(t), Trades(t)
    PROVE  Ownership'
<1>1. \A u \in Tasks \ {t} : Held(u)' = Held(u)
      BY DEF Others, Held, Taken
<1>2. \A u \in Tasks \ {t} : Held(u) \subseteq live /\ Held(u) \cap Held(t) = {}
      BY DEF Ownership
<1>3. \A u \in Tasks : Held(u)' \subseteq live'
      BY <1>1, <1>2 DEF Trades
<1>4. \A u \in Tasks \ {t} : Held(u)' \cap Held(t)' = {}
      BY <1>1, <1>2 DEF Trades
<1>5. \A u, v \in Tasks \ {t} : u # v => Held(u)' \cap Held(v)' = {}
      BY <1>1 DEF Ownership
<1> QED  BY <1>3, <1>4, <1>5 DEF Ownership

LEMMA StagesOfOthers ==
    ASSUME NEW t \in Tasks, Others(t), NEW u \in Tasks \ {t}, StageHolds(u), StageSays(u)
    PROVE  StageHolds(u)' /\ StageSays(u)'
<1>1. call'[u] = call[u] /\ owned'[u] = owned[u] /\ message'[u] = message[u]
      BY DEF Others
<1>2. StageHolds(u)'
      BY <1>1 DEF StageHolds, Late, Made, Declared, Taken
<1>3. StageSays(u)'
      BY <1>1 DEF StageSays
<1> QED  BY <1>2, <1>3

LEMMA InvariantStep ==
    ASSUME IInv, NEW t \in Tasks, Touches(t), Trades(t), Well(t)'
    PROVE  IInv'
<1>1. Others(t)
      BY TouchesOneTask DEF IInv
<1>2. Types'
      BY DEF IInv, Types, Touches, Well
<1>3. Ownership'
      BY <1>1, OwnershipStep DEF IInv
<1>4. \A u \in Tasks : StageHolds(u)' /\ StageSays(u)'
      BY <1>1, StagesOfOthers DEF IInv, Well
<1>5. \A u \in Tasks : OwnText(outcome'[u])
      BY <1>1 DEF IInv, Well, Others, DiagnosticIsOwn, OwnText
<1> QED  BY <1>2, <1>3, <1>4, <1>5 DEF IInv, DiagnosticIsOwn, OwnText
-----------------------------------------------------------------------------
(***************************************************************************)
(* The steps.                                                              *)
(***************************************************************************)
LEMMA Beginning ==
    ASSUME IInv, NEW t \in Tasks, NEW op \in Operations, Begin(t, op)
    PROVE  Touches(t) /\ Trades(t) /\ Well(t)' /\ KeepsHold(t)
<1> DEFINE first == IF Body(op).late THEN "operate" ELSE "declare"
           new == [at |-> first, op |-> op, result |-> Nulls(op), outs |-> Nulls(op),
                   saved |-> Quiet]
<1>1. call'[t] = new /\ owned'[t] = {} /\ outcome'[t] = NoOutcome
      BY DEF Begin, IInv, Types
<1>2. Touches(t)
      BY <1>1 DEF Touches, Begin, IInv, Types, clear_error
<1>3. first \in {"operate", "declare"} /\ (first = "declare" => ~ Body(op).late)
      OBVIOUS
<1> HIDE DEF first
<1>4. new \in CallsOf(op) /\ Taken(new.result) = {} /\ Taken(new.outs) = {}
      BY <1>3, NullsTaken DEF CallsOf, Stages, Texts
<1>5. Held(t) = owned[t] /\ Held(t)' = {}
      BY <1>1, <1>4, NoCallHolds DEF Begin, Held
<1>6. Trades(t) /\ KeepsHold(t)
      BY <1>5 DEF Trades, KeepsHold, Begin
<1>7. StageHolds(t)' /\ StageSays(t)'
      BY <1>1, <1>3, <1>4 DEF StageHolds, StageSays, Late, Made, Declared
<1>8. OwnText(outcome'[t])
      BY <1>1 DEF OwnText, NoOutcome
<1>9. Well(t)'
      BY <1>1, <1>4, <1>7, <1>8
         DEF Well, Begin, IInv, Types, clear_error, Texts, Outcomes
<1> QED  BY <1>2, <1>6, <1>9

\* A call raises: the result's components go, and nothing else is held.
LEMMA Raising ==
    ASSUME IInv, NEW t \in Tasks, call[t].at \in Stages,
           NEW cause \in Texts, NEW text \in Texts, Raise(t, cause, text),
           message' = [message EXCEPT ![t] = message'[t]], message'[t] \in Texts,
           Made(t) \subseteq Declared(t) \/ (call[t].at = "declare" /\ Late(t)),
           OwnText([kind |-> "exception", op |-> call[t].op, cause |-> cause, text |-> text])
    PROVE  /\ Touches(t) /\ Trades(t) /\ Well(t)'
           /\ KeepsHold(t) \/ (call[t].at = "declare" /\ Late(t))
<1>1. /\ call'[t] = NoCall /\ owned'[t] = owned[t] /\ owned[t] = {}
      /\ outcome'[t] = [kind |-> "exception", op |-> call[t].op, cause |-> cause, text |-> text]
      BY Calling DEF Raise, IInv, Types, StageHolds
<1>2. Touches(t)
      BY <1>1 DEF Touches, Raise, IInv, Types
<1>3. Held(t)' = {} /\ Held(t) = Declared(t) \cup Made(t)
      BY <1>1, NoCallHolds DEF Held, Declared, Made
<1>4. Trades(t) /\ (KeepsHold(t) \/ (call[t].at = "declare" /\ Late(t)))
      BY <1>3 DEF Trades, KeepsHold, Raise, Declared
<1>5. StageHolds(t)' /\ StageSays(t)'
      BY <1>1 DEF StageHolds, StageSays, NoCall
<1>6. call[t].op \in Operations
      BY Calling DEF IInv
<1>7. Well(t)'
      BY <1>1, <1>5, <1>6 DEF Well, Raise, IInv, Types, Outcomes
<1> QED  BY <1>2, <1>4, <1>7

\* A call returns: the client holds what the call held.
LEMMA Valuing ==
    ASSUME IInv, NEW t \in Tasks, call[t].at \in Stages,
           Value(t, Held(t)), UNCHANGED live, message' = clear_error(t)
    PROVE  Touches(t) /\ Trades(t) /\ Well(t)' /\ KeepsHold(t)
<1>1. /\ call'[t] = NoCall /\ owned'[t] = Held(t)
      /\ outcome'[t] = [kind |-> "value", op |-> call[t].op, cause |-> Quiet, text |-> Quiet]
      BY DEF Value, IInv, Types
<1>2. Touches(t)
      BY <1>1 DEF Touches, Value, IInv, Types, clear_error
<1>3. Held(t)' = Held(t) /\ Held(t) \subseteq live
      BY <1>1, NoCallHolds DEF Held, IInv, Ownership
<1>4. Trades(t) /\ KeepsHold(t)
      BY <1>3 DEF Trades, KeepsHold
<1>5. StageHolds(t)' /\ StageSays(t)'
      BY <1>1 DEF StageHolds, StageSays, NoCall
<1>6. call[t].op \in Operations
      BY Calling DEF IInv
<1>7. OwnText(outcome'[t])
      BY <1>1 DEF OwnText
<1>8. Well(t)'
      BY <1>1, <1>3, <1>5, <1>6, <1>7
         DEF Well, IInv, Types, Outcomes, clear_error, Texts
<1> QED  BY <1>2, <1>4, <1>8

\* The first component without a wrapper gets a new one.
LEMMA Installed ==
    ASSUME NEW op, NEW h \in Handles(op), NEW i \in Outputs(op), h[i] = Null,
           NEW w \in Wrappers, w # Null
    PROVE  /\ [h EXCEPT ![i] = w] \in Handles(op)
           /\ Taken([h EXCEPT ![i] = w]) = Taken(h) \cup {w}
BY DEF Handles, Taken

LEMMA Declaring ==
    ASSUME IInv, NEW t \in Tasks, Declare(t)
    PROVE  /\ Touches(t) /\ Trades(t) /\ Well(t)'
           /\ KeepsHold(t) \/ (call[t].at = "declare" /\ Late(t))
<1> DEFINE op == call[t].op
<1>1. /\ call[t].at = "declare" /\ call[t].at \in Stages /\ call[t] # NoCall
      /\ call[t] \in CallsOf(op) /\ op \in Operations
      BY Calling DEF Declare, IInv, Stages
<1>2. /\ Made(t) \cap Declared(t) = {}
      /\ ~ Late(t) => Made(t) = {}
      /\ owned[t] = {} /\ Held(t) \subseteq live
      BY <1>1 DEF IInv, StageHolds, Ownership
<1> DEFINE stage(i) == IF i + 1 \in Outputs(op) THEN "declare"
                       ELSE IF Body(op).late THEN "install" ELSE "operate"
           Gets(i, w) == /\ live' = live \cup {w}
                         /\ message' = clear_error(t)
                         /\ call' = [call EXCEPT ![t].result[i] = w, ![t].at = stage(i)]
                         /\ UNCHANGED <<owned, outcome>>
           Cannot(i) ==
              /\ message' = IF i > 1 THEN clear_error(t)
                            ELSE set_error(t, Failure(t, "create"))
              /\ Raise(t, Failure(t, "create"), Failure(t, "create"))
<1>3. PICK i \in Outputs(op) :
         /\ call[t].result[i] = Null
         /\ (\E w \in Wrappers \ live : Gets(i, w)) \/ Cannot(i)
      BY DEF Declare
<1>4. CASE \E w \in Wrappers \ live : Gets(i, w)
  <2>1. PICK w \in Wrappers \ live : Gets(i, w)
        BY <1>4
  <2> DEFINE result == [call[t].result EXCEPT ![i] = w]
             new == [at |-> stage(i), op |-> op, result |-> result, outs |-> call[t].outs,
                     saved |-> call[t].saved]
  <2>2. /\ stage(i) \in {"declare", "install", "operate"}
        /\ stage(i) = "operate" => ~ Late(t)
        BY DEF Late
  <2>3. call'[t] = new
        BY <1>1, <2>1 DEF IInv, Types, CallsOf
  <2>4. Touches(t)
        BY <2>1, <2>3 DEF Touches, IInv, Types, clear_error
  <2>5. /\ result \in Handles(op)
        /\ Taken(result) = Declared(t) \cup {w}
        BY <1>1, <1>3, Installed, CallsAssumption DEF CallsOf, Declared
  <2> HIDE DEF stage, result
  <2>6. new \in CallsOf(op)
        BY <1>1, <2>2, <2>5 DEF CallsOf, Stages
  <2>7. /\ Made(t)' = Made(t) /\ Declared(t)' = Declared(t) \cup {w}
        /\ Late(t)' = Late(t) /\ call'[t].at = stage(i)
        BY <2>3, <2>5 DEF Made, Declared, Late
  <2>8. owned'[t] = owned[t]
        BY <2>1
  <2>9. Held(t)' = Held(t) \cup {w}
        BY <2>7, <2>8 DEF Held, Made, Declared
  <2>10. Trades(t) /\ KeepsHold(t)
        BY <1>2, <2>1, <2>9 DEF Trades, KeepsHold
  <2>11. w \notin Made(t)
        BY <1>2, <2>1 DEF Held, Made
  <2>12. StageHolds(t)'
        BY <1>2, <2>2, <2>7, <2>8, <2>11 DEF StageHolds, Late
  <2>13. StageSays(t)'
        BY <2>2, <2>7 DEF StageSays
  <2>14. Well(t)'
        BY <1>1, <2>1, <2>3, <2>6, <2>12, <2>13
           DEF Well, IInv, Types, DiagnosticIsOwn, OwnText, clear_error, Texts
  <2> QED  BY <2>4, <2>10, <2>14
<1>5. CASE Cannot(i)
  <2>1. Failure(t, "create") \in Texts
        BY DEF Failure, Texts, Diagnostics
  <2>2. message' = [message EXCEPT ![t] = message'[t]] /\ message'[t] \in Texts
        BY <1>5, <2>1 DEF IInv, Types, clear_error, set_error, Texts
  <2>3. Made(t) \subseteq Declared(t) \/ (call[t].at = "declare" /\ Late(t))
        BY <1>1, <1>2
  <2>4. OwnText([kind |-> "exception", op |-> call[t].op,
                 cause |-> Failure(t, "create"), text |-> Failure(t, "create")])
        BY DEF OwnText
  <2> QED  BY <1>1, <1>5, <2>1, <2>2, <2>3, <2>4, Raising
<1> QED  BY <1>3, <1>4, <1>5

LEMMA Succeeding ==
    ASSUME IInv, NEW t \in Tasks, OperateSucceeds(t)
    PROVE  Touches(t) /\ Trades(t) /\ Well(t)' /\ KeepsHold(t)
<1> DEFINE op == call[t].op
           stage == IF Body(op).late THEN "declare" ELSE "install"
<1>1. /\ call[t].at = "operate" /\ call[t].at \in Stages /\ call[t] # NoCall
      /\ call[t] \in CallsOf(op) /\ op \in Operations
      BY Calling DEF OperateSucceeds, IInv, Stages
<1>2. /\ Made(t) = {} /\ (Late(t) => Declared(t) = {})
      /\ owned[t] = {} /\ Held(t) \subseteq live
      BY <1>1 DEF IInv, StageHolds, Ownership
<1>3. PICK outs \in [Outputs(op) -> Wrappers \ live] :
         /\ live' = live \cup Taken(outs)
         /\ call' = [call EXCEPT ![t].outs = outs, ![t].at = stage]
      BY DEF OperateSucceeds
<1> DEFINE new == [at |-> stage, op |-> op, result |-> call[t].result, outs |-> outs,
                   saved |-> call[t].saved]
<1>4. /\ stage \in {"declare", "install"}
      /\ stage = "declare" => Body(op).late
      OBVIOUS
<1>5. call'[t] = new
      BY <1>1, <1>3 DEF IInv, Types, CallsOf
<1>6. Touches(t)
      BY <1>3, <1>5 DEF Touches, OperateSucceeds, IInv, Types, clear_error
<1>7. outs \in Handles(op) /\ Taken(outs) \subseteq Wrappers \ live
      BY DEF Handles, Taken
<1> HIDE DEF stage
<1>8. new \in CallsOf(op)
      BY <1>1, <1>4, <1>7 DEF CallsOf, Stages
<1>9. /\ Made(t)' = Taken(outs) /\ Declared(t)' = Declared(t) /\ Late(t)' = Late(t)
      /\ call'[t].at = stage
      BY <1>5 DEF Made, Declared, Late
<1>10. owned'[t] = {}
      BY <1>2 DEF OperateSucceeds
<1>11. Held(t)' = Declared(t) \cup Taken(outs) /\ Held(t) = Declared(t)
      BY <1>2, <1>9, <1>10 DEF Held, Declared, Made
<1>12. Trades(t) /\ KeepsHold(t)
      BY <1>2, <1>3, <1>7, <1>11 DEF Trades, KeepsHold
<1>13. Taken(outs) \cap Declared(t) = {}
      BY <1>2, <1>7, <1>11
<1>14. StageHolds(t)' /\ StageSays(t)'
      BY <1>2, <1>4, <1>9, <1>13, <1>10 DEF StageHolds, StageSays, Late
<1>15. Well(t)'
      BY <1>1, <1>3, <1>5, <1>7, <1>8, <1>14
         DEF Well, OperateSucceeds, IInv, Types, DiagnosticIsOwn, OwnText, clear_error, Texts
<1> QED  BY <1>6, <1>12, <1>15

LEMMA FindingNothing ==
    ASSUME IInv, NEW t \in Tasks, OperateFindsNothing(t)
    PROVE  Touches(t) /\ Trades(t) /\ Well(t)' /\ KeepsHold(t)
<1>1. call[t].at = "operate" /\ call[t].at \in Stages
      BY DEF OperateFindsNothing, Stages
<1>2. Late(t)
      BY <1>1, Calling, Bodies DEF OperateFindsNothing, Late, IInv
<1>3. Held(t) = {}
      BY <1>1, <1>2, Calling DEF IInv, StageHolds, Held, Made, Declared
<1> QED  BY <1>1, <1>3, Valuing DEF OperateFindsNothing

LEMMA Failing ==
    ASSUME IInv, NEW t \in Tasks, OperateFails(t)
    PROVE  Touches(t) /\ Trades(t) /\ Well(t)' /\ KeepsHold(t)
<1> DEFINE op == call[t].op
           stage == AfterError(op)
           new == [at |-> stage, op |-> op, result |-> call[t].result, outs |-> Nulls(op),
                   saved |-> call[t].saved]
<1>1. /\ call[t].at = "operate" /\ call[t].at \in Stages /\ call[t] # NoCall
      /\ call[t] \in CallsOf(op) /\ op \in Operations
      BY Calling DEF OperateFails, IInv, Stages
<1>2. Made(t) = {} /\ owned[t] = {} /\ Held(t) \subseteq live
      BY <1>1 DEF IInv, StageHolds, Ownership
<1>3. /\ stage \in {"raise", "destroy"}
      /\ stage = "raise" => Body(op).cleanup = "none"
      /\ stage = "destroy" => Body(op).cleanup # "none"
      BY DEF AfterError
<1>4. call'[t] = new
      BY <1>1 DEF OperateFails, IInv, Types, CallsOf
<1>5. message'[t] = Failure(t, "operate") /\ message'[t] \in Texts
      BY DEF OperateFails, IInv, Types, set_error, Failure, Texts, Diagnostics
<1>6. Touches(t)
      BY <1>4, <1>5 DEF Touches, OperateFails, IInv, Types, set_error
<1> HIDE DEF stage
<1>7. new \in CallsOf(op)
      BY <1>1, <1>3, NullsTaken DEF CallsOf, Stages
<1>8. /\ Made(t)' = {} /\ Declared(t)' = Declared(t)
      /\ call'[t].at = stage
      BY <1>4, NullsTaken DEF Made, Declared
<1>9. owned'[t] = {}
      BY <1>2 DEF OperateFails
<1>10. Held(t)' = Held(t)
      BY <1>2, <1>8, <1>9 DEF Held, Made, Declared
<1>11. Trades(t) /\ KeepsHold(t)
      BY <1>2, <1>10 DEF Trades, KeepsHold, OperateFails
<1>12. StageHolds(t)'
      BY <1>3, <1>8, <1>9 DEF StageHolds
<1>13. StageSays(t)'
      BY <1>3, <1>4, <1>5 DEF StageSays
<1>14. Well(t)'
      BY <1>1, <1>4, <1>5, <1>7, <1>12, <1>13
         DEF Well, OperateFails, IInv, Types, DiagnosticIsOwn, OwnText
<1> QED  BY <1>6, <1>11, <1>14

LEMMA Destroying ==
    ASSUME IInv, NEW t \in Tasks, DestroyOutputs(t)
    PROVE  Touches(t) /\ Trades(t) /\ Well(t)' /\ KeepsHold(t)
<1> DEFINE op == call[t].op
           copies == Body(op).cleanup = "copy_destroy"
           saved == IF copies THEN message[t] ELSE Quiet
           new == [at |-> "raise", op |-> op, result |-> call[t].result, outs |-> call[t].outs,
                   saved |-> saved]
<1>1. /\ call[t].at = "destroy" /\ call[t].at \in Stages /\ call[t] # NoCall
      /\ call[t] \in CallsOf(op) /\ op \in Operations
      BY Calling DEF DestroyOutputs, IInv, Stages
<1>2. /\ Made(t) = {} /\ owned[t] = {} /\ Held(t) \subseteq live
      /\ message[t] = Failure(t, "operate") /\ message[t] \in Texts
      /\ Body(op).cleanup # "none"
      BY <1>1 DEF IInv, StageHolds, StageSays, Ownership, Types
<1>3. call'[t] = new
      BY <1>1 DEF DestroyOutputs, IInv, Types, CallsOf
<1>4. message'[t] = IF copies THEN message[t] ELSE Quiet
      BY <1>2 DEF DestroyOutputs, IInv, Types, clear_error, Made
<1>5. Touches(t)
      BY <1>3, <1>4 DEF Touches, DestroyOutputs, IInv, Types, clear_error
<1>6. new \in CallsOf(op)
      BY <1>1, <1>2 DEF CallsOf, Stages, Texts
<1>7. Held(t)' = Held(t)
      BY <1>3 DEF DestroyOutputs, Held
<1>8. Trades(t) /\ KeepsHold(t)
      BY <1>2, <1>7 DEF Trades, KeepsHold, DestroyOutputs, Made
<1>9. StageHolds(t)'
  <2>1. Made(t)' = {} /\ call'[t].at = "raise" /\ owned'[t] = {}
        BY <1>2, <1>3 DEF DestroyOutputs, Made
  <2> QED  BY <2>1 DEF StageHolds
<1>10. StageSays(t)'
      BY <1>2, <1>3, <1>4 DEF StageSays
<1>11. Well(t)'
      BY <1>1, <1>2, <1>3, <1>4, <1>6, <1>9, <1>10
         DEF Well, DestroyOutputs, IInv, Types, DiagnosticIsOwn, OwnText, Texts
<1> QED  BY <1>5, <1>8, <1>11

LEMMA RaisingOnError ==
    ASSUME IInv, NEW t \in Tasks, Raise_On_Error(t)
    PROVE  Touches(t) /\ Trades(t) /\ Well(t)' /\ KeepsHold(t)
<1> DEFINE op == call[t].op
           text == IF Body(op).cleanup = "copy_destroy" THEN call[t].saved ELSE message[t]
<1>1. /\ call[t].at = "raise" /\ call[t].at \in Stages
      /\ call[t] \in CallsOf(op) /\ op \in Operations
      BY Calling DEF Raise_On_Error, IInv, Stages
<1>2. Made(t) = {} /\ StageSays(t)
      BY <1>1 DEF IInv, StageHolds
<1>3. text \in Texts /\ Failure(t, "operate") \in Texts
      BY <1>1 DEF IInv, Types, CallsOf, Failure, Texts, Diagnostics
<1>4. /\ text \in {Failure(t, "operate"), Quiet}
      /\ op \in {"Split", "K_Means", "K_Nearest_Neighbors", "Solve_Linear_Program"}
         => text = Failure(t, "operate")
      BY <1>1, <1>2, Bodies DEF StageSays
<1> HIDE DEF text
<1>5. OwnText([kind |-> "exception", op |-> call[t].op,
               cause |-> Failure(t, "operate"), text |-> text])
      BY <1>4 DEF OwnText
<1>6. message' = [message EXCEPT ![t] = message'[t]] /\ message'[t] \in Texts
      BY DEF Raise_On_Error, IInv, Types, clear_error, Texts
<1>7. Raise(t, Failure(t, "operate"), text)
      BY DEF Raise_On_Error, text
<1> QED  BY <1>1, <1>2, <1>3, <1>5, <1>6, <1>7, Raising

LEMMA Installing ==
    ASSUME IInv, NEW t \in Tasks, Install(t)
    PROVE  Touches(t) /\ Trades(t) /\ Well(t)' /\ KeepsHold(t)
<1> DEFINE op == call[t].op
           new == [at |-> "return", op |-> op, result |-> call[t].outs,
                   outs |-> call[t].outs, saved |-> call[t].saved]
<1>1. /\ call[t].at = "install" /\ call[t].at \in Stages /\ call[t] # NoCall
      /\ call[t] \in CallsOf(op) /\ op \in Operations
      BY Calling DEF Install, IInv, Stages
<1>2. /\ Made(t) \cap Declared(t) = {} /\ owned[t] = {}
      /\ Held(t) \subseteq live
      BY <1>1 DEF IInv, StageHolds, Ownership
<1>3. call'[t] = new
      BY <1>1 DEF Install, IInv, Types, CallsOf
<1>4. Touches(t)
      BY <1>3 DEF Touches, Install, IInv, Types, clear_error
<1>5. new \in CallsOf(op)
      BY <1>1 DEF CallsOf, Stages
<1>6. Made(t)' = Made(t) /\ Declared(t)' = Made(t)
      BY <1>3 DEF Made, Declared
<1>7. owned'[t] = {}
      BY <1>2 DEF Install
<1>8. Held(t)' = Made(t) /\ Held(t) = Made(t) \cup Declared(t)
      BY <1>2, <1>6, <1>7 DEF Held, Made, Declared
<1>9. live' = live \ Declared(t)
      BY DEF Install, Declared
<1>10. Trades(t) /\ KeepsHold(t)
      BY <1>2, <1>8, <1>9 DEF Trades, KeepsHold
<1>11. StageHolds(t)' /\ StageSays(t)'
      BY <1>3, <1>7 DEF StageHolds, StageSays
<1>12. Well(t)'
      BY <1>1, <1>3, <1>5, <1>7, <1>9, <1>11
         DEF Well, Install, IInv, Types, DiagnosticIsOwn, OwnText, clear_error, Texts
<1> QED  BY <1>4, <1>10, <1>12

LEMMA Returning ==
    ASSUME IInv, NEW t \in Tasks, Return(t)
    PROVE  Touches(t) /\ Trades(t) /\ Well(t)' /\ KeepsHold(t)
<1>1. /\ call[t].at = "return" /\ call[t].at \in Stages
      /\ call[t].result = call[t].outs /\ owned[t] = {}
      BY Calling DEF Return, IInv, Stages, StageHolds
<1>2. Made(t) = Declared(t) /\ Held(t) = Taken(call[t].result)
      BY <1>1 DEF Made, Declared, Held
<1>3. CASE Value(t, Taken(call[t].result)) /\ UNCHANGED live
      BY <1>1, <1>2, <1>3, Valuing DEF Return
<1>4. CASE Raise(t, Failure(t, "copy"), Failure(t, "copy"))
  <2>1. Failure(t, "copy") \in Texts
        BY DEF Failure, Texts, Diagnostics
  <2>2. message' = [message EXCEPT ![t] = message'[t]] /\ message'[t] \in Texts
        BY DEF Return, IInv, Types, clear_error, Texts
  <2>3. OwnText([kind |-> "exception", op |-> call[t].op,
                 cause |-> Failure(t, "copy"), text |-> Failure(t, "copy")])
        BY DEF OwnText
  <2> QED  BY <1>1, <1>2, <1>4, <2>1, <2>2, <2>3, Raising
<1> QED  BY <1>3, <1>4 DEF Return

\* What every step does, put together.
LEMMA StepOfOneTask ==
    ASSUME IInv, NEW t \in Tasks, Step(t)
    PROVE  /\ Touches(t) /\ Trades(t) /\ Well(t)'
           /\ KeepsHold(t) \/ (call[t].at = "declare" /\ Late(t))
BY Beginning, Declaring, Succeeding, FindingNothing, Failing, Destroying, RaisingOnError,
   Installing, Returning DEF Step

LEMMA Stuttering ==
    ASSUME IInv, UNCHANGED vars
    PROVE  IInv'
<1>1. Types'
      BY DEF vars, IInv, Types
<1>2. \A t \in Tasks : Held(t)' = Held(t)
      BY DEF vars, Held, Taken
<1>3. Ownership'
      BY <1>2 DEF vars, IInv, Ownership
<1>4. \A t \in Tasks : StageHolds(t)' /\ StageSays(t)'
  <2> SUFFICES ASSUME NEW t \in Tasks
               PROVE  StageHolds(t)' /\ StageSays(t)'
      OBVIOUS
  <2>1. StageHolds(t)'
        BY DEF vars, IInv, StageHolds, Late, Made, Declared, Taken
  <2>2. StageSays(t)'
        BY DEF vars, IInv, StageSays
  <2> QED  BY <2>1, <2>2
<1>5. DiagnosticIsOwn'
      BY DEF vars, IInv, DiagnosticIsOwn
<1> QED  BY <1>1, <1>3, <1>4, <1>5 DEF IInv

LEMMA Starting == Init => IInv
<1> SUFFICES ASSUME Init
             PROVE  IInv
    OBVIOUS
<1>1. Types
      BY DEF Init, Types, Texts, Outcomes
<1>2. \A t \in Tasks : Held(t) = {}
      BY NoCallHolds DEF Init, Held
<1>3. Ownership
      BY <1>2 DEF Ownership
<1>4. \A t \in Tasks : StageHolds(t) /\ StageSays(t)
      BY DEF Init, StageHolds, StageSays, NoCall
<1>5. DiagnosticIsOwn
      BY DEF Init, DiagnosticIsOwn, NoOutcome
<1> QED  BY <1>1, <1>3, <1>4, <1>5 DEF IInv

-----------------------------------------------------------------------------
\* The invariant holds for any number of tasks.
THEOREM InvariantHolds == Spec => []IInv
<1>1. IInv /\ [Next]_vars => IInv'
      BY StepOfOneTask, InvariantStep, Stuttering DEF Next
<1> QED  BY Starting, <1>1, PTL DEF Spec

\* Calls of every operation, with outputs in any number, stay well formed.
THEOREM Typed == Spec => []TypeOK
<1>1. IInv => TypeOK
      BY DEF IInv, Types, TypeOK, CallsOf, Stages, Texts, Outcomes
<1> QED  BY <1>1, InvariantHolds, PTL

\* A client's result is allocated and its own, however calls of other tasks
\* interleave with the one that made it and whichever of them fail.
THEOREM ResultsStayWhole == Spec => []ResultsAreWhole
<1>1. IInv => ResultsAreWhole
      BY DEF IInv, Ownership, ResultsAreWhole, Held
<1> QED  BY <1>1, InvariantHolds, PTL

\* No exception carries the text of another task's failure or of an earlier
\* one, and four operations always deliver their own.
THEOREM DiagnosticsStayOwn == Spec => []DiagnosticIsOwn
<1>1. IInv => DiagnosticIsOwn
      BY DEF IInv
<1> QED  BY <1>1, InvariantHolds, PTL

\* A wrapper is lost in one way only: a result declared after the native
\* call fails.
THEOREM OnlyLateDeclarationsLose == Spec => WrappersAreLostOnlyLate
<1> DEFINE Lost == \A w \in Wrappers :
          /\ w \in live' /\ \A t \in Tasks : w \notin Held(t)'
          /\ w \in live => \E t \in Tasks : w \in Held(t)
          => \E t \in Tasks : call[t].at = "declare" /\ Body(call[t].op).late
<1>1. ASSUME IInv, NEW t \in Tasks, Step(t)
      PROVE  Lost
  <2>1. CASE call[t].at = "declare" /\ Late(t)
        BY <2>1 DEF Late
  <2>2. CASE KeepsHold(t)
    <3> SUFFICES ASSUME NEW w \in Wrappers, w \in live', \A u \in Tasks : w \notin Held(u)',
                        w \in live => \E u \in Tasks : w \in Held(u)
                 PROVE  FALSE
        OBVIOUS
    <3>1. w \in live /\ w \notin Held(t)
          BY <2>2 DEF KeepsHold
    <3>2. PICK u \in Tasks : w \in Held(u)
          BY <3>1
    <3>3. Others(t)
          BY <1>1, StepOfOneTask, TouchesOneTask DEF IInv
    <3>4. Held(u)' = Held(u)
          BY <3>1, <3>2, <3>3 DEF Others, Held
    <3> QED  BY <3>2, <3>4
  <2> QED  BY <1>1, <2>1, <2>2, StepOfOneTask
<1>2. IInv /\ [Next]_vars => [Lost]_vars
      BY <1>1 DEF Next
<1> QED  BY <1>2, InvariantHolds, PTL DEF Spec, WrappersAreLostOnlyLate
=============================================================================
