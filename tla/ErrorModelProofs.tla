-------------------------- MODULE ErrorModelProofs --------------------------
(***************************************************************************)
(* What the gRPC boundary of scerr does to a handler's error, for every    *)
(* bound on the decorations: the client gets exactly the gRPC code the     *)
(* error carries, and an error whose code is OK arrives as success.  This  *)
(* is the exact extent of the nil-status finding of ErrorReachesClient.   *)
(***************************************************************************)
EXTENDS ErrorModel, TLAPS

\* The gRPC codes the constructors and the conversions use.
Codes == {c.code : c \in Constructors} \cup {"Unknown"}

\* The Go types an error value or a status may have.
Kinds == {c.kind : c \in Constructors} \cup {"nil", "status", "plain", "errCore", "List"}

\* An error value or a status: a Go type and a gRPC code.
Value == [kind : Kinds, code : Codes]

(* Where the call stands: what Send and Receive computed from the error,  *)
(* which Decorate no longer changes once it has been sent.                 *)
ErrInv ==
    /\ err \in Value
    /\ err.kind = "plain" => err.code = "Unknown"
    /\ phase \in {"build", "sent", "received"}
    /\ phase \in {"sent", "received"} => sent = ToGRPCStatus(err)
    /\ phase = "received" => recv = IF sent = Nil THEN Nil ELSE FromGRPCStatus(sent)

(* The client sees an error exactly when the handler's error has a gRPC    *)
(* code other than OK, and then with that code: ToGRPCStatus keeps the    *)
(* code, FromGRPCStatus reads it back, and only codes.OK is lost.          *)
ClientSeesCode ==
    phase = "received" =>
        /\ recv = Nil <=> err.code = "OK"
        /\ recv # Nil => recv.code = err.code

\* Every constructor builds a value of the two-field shape.
LEMMA ConstructorsValues == Constructors \cup {Plain} \subseteq Value
  BY DEF Constructors, Plain, Value, Kinds, Codes

\* Only Plain, of the errors a handler starts from, is a plain Go error.
LEMMA PlainIsUnknown ==
    \A e \in Constructors \cup {Plain} : e.kind = "plain" => e.code = "Unknown"
  BY DEF Constructors, Plain

LEMMA ErrInvInit == Init => ErrInv
<1> SUFFICES ASSUME Init PROVE ErrInv
  OBVIOUS
<1>1. err \in Constructors \cup {Plain} /\ phase = "build"
  BY DEF Init
<1> QED
  BY <1>1, ConstructorsValues, PlainIsUnknown, Zenon DEF ErrInv

LEMMA ErrInvStep == ErrInv /\ [Next]_vars => ErrInv'
<1> SUFFICES ASSUME ErrInv, [Next]_vars PROVE ErrInv'
  OBVIOUS
<1>1. CASE Decorate
  <2>1. err' \in {Wrap(err), NewError(err), ErrListError({err})}
    BY <1>1 DEF Decorate
  <2>2. err' \in Value
    BY <2>1 DEF ErrInv, Value, Kinds, Codes, Constructors, Wrap, NewError, ErrListError, Nil
  <2>3. err'.kind = "plain" => err'.code = "Unknown"
    BY <2>1 DEF Wrap, NewError, ErrListError, Nil
  <2>4. phase' = "build"
    BY <1>1 DEF Decorate
  <2> QED
    BY <2>2, <2>3, <2>4, Zenon DEF ErrInv
<1>2. CASE Send
  BY <1>2 DEF Send, ErrInv
<1>3. CASE Receive
  BY <1>3 DEF Receive, ErrInv
<1>4. CASE UNCHANGED vars
  BY <1>4 DEF vars, ErrInv
<1> QED
  BY <1>1, <1>2, <1>3, <1>4 DEF Next

\* The status of an error is nil exactly when its code is OK, else it has that code.
LEMMA StatusCode ==
    ASSUME NEW e \in Value
    PROVE  /\ ToGRPCStatus(e) = Nil <=> e.kind # "plain" /\ e.code = "OK"
           /\ ToGRPCStatus(e) # Nil =>
                 ToGRPCStatus(e).code = IF e.kind = "plain" THEN "Unknown" ELSE e.code
  BY DEF ToGRPCStatus, StatusOf, Status, Nil, Value

\* The client rebuilds an error, never nil, with the status's code.
LEMMA RebuiltCode ==
    ASSUME NEW s \in Value
    PROVE  FromGRPCStatus(s) # Nil /\ FromGRPCStatus(s).code = s.code
  BY DEF FromGRPCStatus, KindOfCode, Nil

(* For every bound on Wrap, NewError and ErrListError, the call's client   *)
(* gets nil exactly when the handler's error has code OK, and otherwise an *)
(* error with the handler's code: the dropped failures are precisely the   *)
(* code-OK errors of NewError, ErrListError, NotImplementedErrorWithReason *)
(* and Wrap over them.                                                     *)
THEOREM ClientCode == Spec => []ClientSeesCode
<1>1. ErrInv => ClientSeesCode
  <2> SUFFICES ASSUME ErrInv, phase = "received" PROVE ClientSeesCode
    BY DEF ClientSeesCode
  <2>1. err \in Value /\ sent = ToGRPCStatus(err)
        /\ recv = (IF sent = Nil THEN Nil ELSE FromGRPCStatus(sent))
        /\ (err.kind = "plain" => err.code = "Unknown")
    BY Zenon DEF ErrInv
  <2>2. CASE sent = Nil
    BY <2>1, <2>2, StatusCode DEF ClientSeesCode
  <2>3. CASE sent # Nil
    <3>1. sent \in Value
      BY <2>1, <2>3 DEF ToGRPCStatus, StatusOf, Status, Value, Kinds, Codes, Constructors
    <3>2. recv # Nil /\ recv.code = sent.code
      BY <2>1, <2>3, <3>1, RebuiltCode
    <3>3. sent.code = err.code /\ err.code # "OK"
      BY <2>1, <2>3, StatusCode
    <3> QED
      BY <3>2, <3>3 DEF ClientSeesCode
  <2> QED
    BY <2>2, <2>3
<1> QED
  BY <1>1, ErrInvInit, ErrInvStep, PTL DEF Spec

=============================================================================
