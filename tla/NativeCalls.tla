----------------------------- MODULE NativeCalls -----------------------------
(***************************************************************************)
(* One call of the thick binding that returns matrices: how the outputs of *)
(* the shim become components of an Ada result, and how a failure becomes  *)
(* an exception.                                                           *)
(*                                                                         *)
(* The shim reports a failure as a status and leaves its diagnostic in a   *)
(* buffer of the calling thread, which the next shim call of that thread   *)
(* clears.  Between the failing call and the exception the binding may     *)
(* release what the call left behind, and every release is a shim call.    *)
(* Meanwhile other tasks call the shim too.  A step is one call of the     *)
(* shim, or a run of calls of one task that no other step depends on.      *)
(***************************************************************************)
EXTENDS Naturals, FiniteSets

CONSTANTS
    Tasks,       \* Ada tasks, one thread each
    Wrappers,    \* addresses of opencv_core_mat_handle objects
    Null,        \* the null handle
    Quiet,       \* the empty diagnostic
    Channels,    \* channels of a matrix that is split
    Operations   \* the operations the tasks call

(***************************************************************************)
(* The operations.  A shim function has a number of outputs; "optional"    *)
(* ones also succeed with no output (a singular matrix, an infeasible      *)
(* program, an equation without roots).                                    *)
(***************************************************************************)
Shim(outputs, optional) == [outputs |-> outputs, optional |-> optional]

mat_split == Shim(Channels, FALSE)
mat_kmeans == Shim(2, FALSE)
mat_batch_distance == Shim(2, FALSE)
mat_extract_channel == Shim(1, FALSE)
mat_cart_to_polar == Shim(2, FALSE)
mat_covariance == Shim(2, FALSE)
mat_eigen_decomposition == Shim(2, FALSE)
mat_singular_value_decomposition == Shim(3, FALSE)
mat_invert == Shim(1, TRUE)
mat_solve == Shim(1, TRUE)
mat_solve_cubic == Shim(1, TRUE)
solve_linear_program == Shim(1, TRUE)

\* late: the Ada result is declared after the native call, not before it.
\* cleanup: what precedes Raise_On_Error: nothing, Mat_Destroy of every
\* output, or a copy of the diagnostic and then Mat_Destroy.
Binding(shim, late, cleanup) == [shim |-> shim, late |-> late, cleanup |-> cleanup]

Split == Binding(mat_split, FALSE, "none")
K_Means == Binding(mat_kmeans, FALSE, "none")
K_Nearest_Neighbors == Binding(mat_batch_distance, FALSE, "none")
Extract_Channel == Binding(mat_extract_channel, FALSE, "destroy")
Cart_To_Polar == Binding(mat_cart_to_polar, FALSE, "destroy")
Covariance == Binding(mat_covariance, FALSE, "destroy")
Eigen_Decomposition == Binding(mat_eigen_decomposition, FALSE, "destroy")
Singular_Value_Decomposition ==
    Binding(mat_singular_value_decomposition, FALSE, "destroy")
Invert == Binding(mat_invert, TRUE, "destroy")
Solve == Binding(mat_solve, TRUE, "destroy")
Solve_Cubic == Binding(mat_solve_cubic, TRUE, "destroy")

\* Mutant: the diagnostic is read after the outputs are destroyed.
Solve_Linear_Program_Destroying == Binding(solve_linear_program, TRUE, "destroy")

Solve_Linear_Program == Binding(solve_linear_program, TRUE, "copy_destroy")

AllOperations ==
    {"Split", "K_Means", "K_Nearest_Neighbors", "Extract_Channel",
     "Cart_To_Polar", "Covariance", "Eigen_Decomposition",
     "Singular_Value_Decomposition", "Invert", "Solve", "Solve_Cubic",
     "Solve_Linear_Program"}

Body(op) ==
    CASE op = "Split" -> Split
      [] op = "K_Means" -> K_Means
      [] op = "K_Nearest_Neighbors" -> K_Nearest_Neighbors
      [] op = "Extract_Channel" -> Extract_Channel
      [] op = "Cart_To_Polar" -> Cart_To_Polar
      [] op = "Covariance" -> Covariance
      [] op = "Eigen_Decomposition" -> Eigen_Decomposition
      [] op = "Singular_Value_Decomposition" -> Singular_Value_Decomposition
      [] op = "Invert" -> Invert
      [] op = "Solve" -> Solve
      [] op = "Solve_Cubic" -> Solve_Cubic
      [] op = "Solve_Linear_Program" -> Solve_Linear_Program

Outputs(op) == 1 .. Body(op).shim.outputs

\* What a shim function that fails may say: whose call it was, and where.
Diagnostics == Tasks \X {"create", "operate", "copy"}

ASSUME CallsAssumption ==
    /\ Null \notin Wrappers
    /\ Channels \in Nat \ {0}
    /\ Operations \subseteq AllOperations
    /\ Quiet \notin Diagnostics

VARIABLES
    live,       \* wrappers that are allocated
    message,    \* last_error_message of every thread
    call,       \* the call every task is in
    owned,      \* wrappers of the result the client of a task holds
    outcome     \* how the last call of a task ended

vars == <<live, message, call, owned, outcome>>


NoCall == [at |-> "idle", op |-> "none", result |-> << >>, outs |-> << >>,
           saved |-> Quiet]
NoOutcome == [kind |-> "none", op |-> "none", cause |-> Quiet, text |-> Quiet]

\* A component or an output for each output of the operation.
Handles(op) == [Outputs(op) -> Wrappers \cup {Null}]
Nulls(op) == [i \in Outputs(op) |-> Null]
Taken(handles) == {handles[i] : i \in DOMAIN handles} \ {Null}

TypeOK ==
    /\ live \subseteq Wrappers
    /\ message \in [Tasks -> Diagnostics \cup {Quiet}]
    /\ owned \in [Tasks -> SUBSET Wrappers]
    /\ \A t \in Tasks :
          \/ call[t] = NoCall
          \/ /\ call[t].at \in {"declare", "operate", "destroy", "raise",
                                "install", "return"}
             /\ call[t].op \in Operations
             /\ call[t].result \in Handles(call[t].op)
             /\ call[t].outs \in Handles(call[t].op)
             /\ call[t].saved \in Diagnostics \cup {Quiet}
    /\ outcome \in [Tasks ->
          {NoOutcome} \cup
          [kind : {"value", "exception"}, op : Operations,
           cause : Diagnostics \cup {Quiet}, text : Diagnostics \cup {Quiet}]]

Init ==
    /\ live = {}
    /\ message = [t \in Tasks |-> Quiet]
    /\ call = [t \in Tasks |-> NoCall]
    /\ owned = [t \in Tasks |-> {}]
    /\ outcome = [t \in Tasks |-> NoOutcome]

(***************************************************************************)
(* The error channel of the shim.                                          *)
(***************************************************************************)
\* Mutant: last_error_message is not thread_local.
set_error_globally(t, diagnostic) == [u \in Tasks |-> diagnostic]

\* Mutant: a null what() is not replaced by a text.
set_error_null(t, diagnostic) == [message EXCEPT ![t] = Null]

set_error(t, diagnostic) == [message EXCEPT ![t] = diagnostic]

clear_error(t) == [message EXCEPT ![t] = Quiet]

(***************************************************************************)
(* Ends of a call.                                                         *)
(***************************************************************************)
\* Raise_On_Error copies the diagnostic into the exception before the
\* components declared so far are finalized.
Raise(t, cause, text) ==
    /\ outcome' = [outcome EXCEPT ![t] = [kind |-> "exception", op |-> call[t].op,
                                          cause |-> cause, text |-> text]]
    /\ live' = live \ Taken(call[t].result)
    /\ call' = [call EXCEPT ![t] = NoCall]
    /\ UNCHANGED owned

Value(t, wrappers) ==
    /\ outcome' = [outcome EXCEPT ![t] = [kind |-> "value", op |-> call[t].op,
                                          cause |-> Quiet, text |-> Quiet]]
    /\ owned' = [owned EXCEPT ![t] = wrappers]
    /\ call' = [call EXCEPT ![t] = NoCall]

\* What a shim function of task t says when it fails at a step.
Failure(t, step) == <<t, step>>

(***************************************************************************)
(* The steps of a call.                                                    *)
(***************************************************************************)
\* The client's last result is finalized before it asks for another.
Begin(t, op) ==
    /\ call[t] = NoCall
    /\ live' = live \ owned[t]
    /\ message' = IF owned[t] = {} THEN message ELSE clear_error(t)
    /\ owned' = [owned EXCEPT ![t] = {}]
    /\ outcome' = [outcome EXCEPT ![t] = NoOutcome]
    /\ call' = [call EXCEPT ![t] =
                  [at |-> IF Body(op).late THEN "operate" ELSE "declare", op |-> op,
                   result |-> Nulls(op), outs |-> Nulls(op), saved |-> Quiet]]

\* Result : T; Initialize gives each Mat component a default wrapper in turn.
Declare(t) ==
    /\ call[t].at = "declare"
    /\ \E i \in Outputs(call[t].op) :
          /\ call[t].result[i] = Null
          /\ \A j \in Outputs(call[t].op) : j < i => call[t].result[j] # Null
          /\ \/ \E w \in Wrappers \ live :
                   /\ live' = live \cup {w}
                   /\ message' = clear_error(t)
                   /\ call' = [call EXCEPT
                        ![t].result[i] = w,
                        ![t].at = IF i + 1 \in Outputs(call[t].op) THEN "declare"
                                  ELSE IF Body(call[t].op).late THEN "install"
                                  ELSE "operate"]
                   /\ UNCHANGED <<owned, outcome>>
             \/ /\ message' = IF i > 1 THEN clear_error(t)
                              ELSE set_error(t, Failure(t, "create"))
                /\ Raise(t, Failure(t, "create"), Failure(t, "create"))

\* The shim nulls its outputs, calls OpenCV, and releases the wrappers it has
\* built into the outputs only when the last of them exists.
OperateSucceeds(t) ==
    /\ call[t].at = "operate"
    /\ \E outs \in [Outputs(call[t].op) -> Wrappers \ live] :
          /\ \A i, j \in Outputs(call[t].op) : i # j => outs[i] # outs[j]
          /\ live' = live \cup Taken(outs)
          /\ call' = [call EXCEPT
               ![t].outs = outs,
               ![t].at = IF Body(call[t].op).late THEN "declare" ELSE "install"]
    /\ message' = clear_error(t)
    /\ UNCHANGED <<owned, outcome>>

\* return (Invertible => False): no Mat component, nothing to declare.
OperateFindsNothing(t) ==
    /\ call[t].at = "operate" /\ Body(call[t].op).shim.optional
    /\ message' = clear_error(t)
    /\ Value(t, {})
    /\ UNCHANGED live

\* Where the binding goes when the status is not Success.
AfterError(op) == IF Body(op).cleanup = "none" THEN "raise" ELSE "destroy"

\* Mutant: the first output is published as soon as it exists, and the second
\* one fails.
OperateFailsHalfway(t) ==
    /\ call[t].at = "operate"
    /\ \E w \in (Wrappers \ live) :
          /\ live' = live \cup {w}
          /\ call' = [call EXCEPT ![t].outs[1] = w, ![t].at = AfterError(call[t].op)]
    /\ message' = set_error(t, Failure(t, "operate"))
    /\ UNCHANGED <<owned, outcome>>

OperateFails(t) ==
    /\ call[t].at = "operate"
    /\ call' = [call EXCEPT ![t].outs = Nulls(call[t].op),
                            ![t].at = AfterError(call[t].op)]
    /\ message' = set_error(t, Failure(t, "operate"))
    /\ UNCHANGED <<live, owned, outcome>>

\* if Status /= Success then Mat_Destroy (New_Handle); ... The one operation
\* that copies the diagnostic first leaves null handles alone.
DestroyOutputs(t) ==
    /\ call[t].at = "destroy"
    /\ call' = [call EXCEPT
         ![t].at = "raise",
         ![t].saved = IF Body(call[t].op).cleanup = "copy_destroy"
                      THEN message[t] ELSE Quiet]
    /\ message' = IF Body(call[t].op).cleanup = "copy_destroy" /\ Taken(call[t].outs) = {}
                  THEN message ELSE clear_error(t)
    /\ live' = live \ Taken(call[t].outs)
    /\ UNCHANGED <<owned, outcome>>

Raise_On_Error(t) ==
    /\ call[t].at = "raise"
    /\ Raise(t, Failure(t, "operate"),
             IF Body(call[t].op).cleanup = "copy_destroy"
             THEN call[t].saved ELSE message[t])
    /\ message' = IF Taken(call[t].result) = {} THEN message ELSE clear_error(t)

\* Mutant: the component is overwritten before it is destroyed.
InstallThenDestroy(t) ==
    /\ call[t].at = "install"
    /\ live' = live \ Taken(call[t].outs)
    /\ message' = clear_error(t)
    /\ call' = [call EXCEPT ![t].result = call[t].outs, ![t].at = "return"]
    /\ UNCHANGED <<owned, outcome>>

\* Mat_Destroy (Result.U.Handle); Result.U.Handle := U_Handle; and so on.
Install(t) ==
    /\ call[t].at = "install"
    /\ live' = live \ Taken(call[t].result)
    /\ message' = clear_error(t)
    /\ call' = [call EXCEPT ![t].result = call[t].outs, ![t].at = "return"]
    /\ UNCHANGED <<owned, outcome>>

\* return Result: the components are copied to the client's result with
\* Adjust and the local ones finalized (module MatHandles), or a copy raises
\* and all of them are finalized.
Return(t) ==
    /\ call[t].at = "return"
    /\ message' = clear_error(t)
    /\ \/ Value(t, Taken(call[t].result)) /\ UNCHANGED live
       \/ Raise(t, Failure(t, "copy"), Failure(t, "copy"))

Step(t) ==
    \/ \E op \in Operations : Begin(t, op)
    \/ Declare(t)
    \/ OperateSucceeds(t) \/ OperateFindsNothing(t) \/ OperateFails(t)
    \/ DestroyOutputs(t) \/ Raise_On_Error(t)
    \/ Install(t) \/ Return(t)

Next == \E t \in Tasks : Step(t)

Spec == Init /\ [][Next]_vars

(***************************************************************************)
(* Correctness.                                                            *)
(***************************************************************************)
\* The handles a task still answers for.
Held(t) == owned[t] \cup Taken(call[t].result) \cup Taken(call[t].outs)

\* Every wrapper the shim allocated can still be reached by the task that
\* will destroy it, whichever of the shim's allocations failed.  Split and
\* K_Means rely on it: they raise without destroying any output.  (The rule
\* of .clinerules/03-cpp-interop.md:97: every handle has an owner whose
\* finalization calls the matching destroy function.)
NoWrapperLost == \A w \in live : \E t \in Tasks : w \in Held(t)

\* Only the operations that declare their result after the native call can
\* lose a wrapper, and only when that declaration fails (run
\* calls_late_result shows one doing it); no other step of a call, succeeding
\* or failing, of any task, leaves a handle without an owner.
WrappersAreLostOnlyLate ==
    [][\A w \in Wrappers :
          /\ w \in live' /\ \A t \in Tasks : w \notin Held(t)'
          /\ w \in live => \E t \in Tasks : w \in Held(t)
          => \E t \in Tasks : call[t].at = "declare" /\ Body(call[t].op).late]_vars

\* Results are whole and exclusive: what a client holds is allocated, is held
\* by no other task, and is not about to be destroyed by a call in progress.
ResultsAreWhole ==
    \A t \in Tasks :
        /\ owned[t] \subseteq live
        /\ call[t].at = "return" => Taken(call[t].result) \subseteq live
        /\ \A u \in Tasks \ {t} : Held(t) \cap Held(u) = {}

\* An exception never carries the diagnostic of another call or another task;
\* the operations that raise before any further shim call, or copy the
\* diagnostic first, deliver their own whatever other tasks do meanwhile.
DiagnosticIsOwn ==
    \A t \in Tasks : outcome[t].kind = "exception" =>
        /\ outcome[t].text \in {outcome[t].cause, Quiet}
        /\ outcome[t].op \in {"Split", "K_Means", "K_Nearest_Neighbors",
                              "Solve_Linear_Program"}
           => outcome[t].text = outcome[t].cause

\* .clinerules/03-cpp-interop.md:318: an operation rejected by OpenCV
\* "should preserve the resulting OpenCV diagnostic" in its exception.
DiagnosticIsPreserved ==
    \A t \in Tasks : outcome[t].kind = "exception" =>
        outcome[t].text = outcome[t].cause
=============================================================================
