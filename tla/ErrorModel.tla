----------------------------- MODULE ErrorModel -----------------------------
(***************************************************************************)
(* The error values of package scerr (compute.go 1130-1876) as far as the  *)
(* gRPC boundary tells them apart: the kind (the Go type: a typed error,   *)
(* a bare errCore, an ErrList or a plain Go error) and the gRPC code an    *)
(* errCore carries.  A server handler builds an error with the            *)
(* constructors, Wrap, NewError and ErrListError, converts it with        *)
(* ToGRPCStatus, and the client turns the status back into an error with  *)
(* FromGRPCStatus.  Messages, fields and consequences do not change the   *)
(* kind or the code and are left out.                                     *)
(***************************************************************************)
EXTENDS Naturals

CONSTANT MaxWraps   \* bound on the Wrap, NewError and ErrListError calls on one error

VARIABLES
    err,     \* the error the handler holds
    wraps,   \* the calls made on it
    sent,    \* the gRPC status the handler returned
    recv,    \* the error the client rebuilt from it
    phase    \* "build", "sent" or "received"

vars == <<err, wraps, sent, recv, phase>>

\* A nil error, or a nil status (grpc's Status.Err() of code OK).
Nil == [kind |-> "nil", code |-> "OK"]

\* The error grpcstatus builds for a code other than OK.
Status(c) == [kind |-> "status", code |-> c]

\* An error that is not an scerr.Error (fmt.Errorf and the like).
Plain == [kind |-> "plain", code |-> "Unknown"]

(* The constructors and the code each gives its errCore; the errCore of    *)
(* NotImplementedErrorWithReason is built without one (the zero, OK).      *)
Constructors ==
    {[kind |-> "Timeout", code |-> "DeadlineExceeded"],
     [kind |-> "NotFound", code |-> "NotFound"],
     [kind |-> "NotAvailable", code |-> "Unavailable"],
     [kind |-> "Duplicate", code |-> "AlreadyExists"],
     [kind |-> "InvalidRequest", code |-> "InvalidArgument"],
     [kind |-> "NotAuthenticated", code |-> "Unauthenticated"],
     [kind |-> "Forbidden", code |-> "PermissionDenied"],
     [kind |-> "Aborted", code |-> "Aborted"],
     [kind |-> "Overflow", code |-> "OutOfRange"],
     [kind |-> "Overload", code |-> "ResourceExhausted"],
     [kind |-> "NotImplemented", code |-> "Unimplemented"],
     [kind |-> "NotImplemented", code |-> "OK"],
     [kind |-> "RuntimePanic", code |-> "Internal"],
     [kind |-> "InvalidInstance", code |-> "FailedPrecondition"],
     [kind |-> "InvalidParameter", code |-> "FailedPrecondition"],
     [kind |-> "InvalidInstanceContent", code |-> "FailedPrecondition"],
     [kind |-> "Inconsistent", code |-> "DataLoss"]}

(* Wrap inherits the code of a cause that is a bare *errCore; a typed      *)
(* error is not one (it embeds it), so its wrapper gets Unknown.           *)
Wrap(cause) ==
    [kind |-> "errCore", code |-> IF cause.kind = "errCore" THEN cause.code ELSE "Unknown"]

\* NewError leaves grpcCode at its zero value, codes.OK.
NewError(cause) == [kind |-> "errCore", code |-> "OK"]

\* ErrListError: nil for no error, else an ErrList over a zero errCore.
ErrListError(errors) == IF errors = {} THEN Nil ELSE [kind |-> "List", code |-> "OK"]

(* errCore.ToGRPCStatus: grpcstatus.Errorf(e.GRPCCode(), ...), which is    *)
(* nil when the code is OK.                                                *)
StatusOf(e) == IF e.code = "OK" THEN Nil ELSE Status(e.code)

\* ToGRPCStatus: a non-scerr error becomes an Unknown status.
ToGRPCStatus(e) == IF e.kind = "plain" THEN Status("Unknown") ELSE StatusOf(e)

\* FromGRPCStatus: the typed error of each code it knows, else a bare errCore.
KindOfCode ==
    [DeadlineExceeded |-> "Timeout", Aborted |-> "Aborted",
     FailedPrecondition |-> "InvalidParameter", AlreadyExists |-> "Duplicate",
     InvalidArgument |-> "InvalidRequest", NotFound |-> "NotFound",
     PermissionDenied |-> "Forbidden", ResourceExhausted |-> "Overload",
     OutOfRange |-> "Overflow", Unimplemented |-> "NotImplemented",
     Internal |-> "RuntimePanic", DataLoss |-> "Inconsistent",
     Unauthenticated |-> "NotAuthenticated"]

FromGRPCStatus(s) ==
    [kind |-> IF s.code \in DOMAIN KindOfCode THEN KindOfCode[s.code] ELSE "errCore",
     code |-> s.code]

Init ==
    /\ err \in Constructors \cup {Plain}
    /\ wraps = 0 /\ sent = Nil /\ recv = Nil /\ phase = "build"

\* The handler wraps the error, makes it the cause of a new one, or lists it.
Decorate ==
    /\ phase = "build" /\ wraps < MaxWraps
    /\ err' \in {Wrap(err), NewError(err), ErrListError({err})}
    /\ wraps' = wraps + 1
    /\ UNCHANGED <<sent, recv, phase>>

\* The handler returns the error to the gRPC layer.
Send ==
    /\ phase = "build"
    /\ sent' = ToGRPCStatus(err) /\ phase' = "sent"
    /\ UNCHANGED <<err, wraps, recv>>

\* The client gets the status; a nil status is a successful call.
Receive ==
    /\ phase = "sent"
    /\ recv' = IF sent = Nil THEN Nil ELSE FromGRPCStatus(sent)
    /\ phase' = "received"
    /\ UNCHANGED <<err, wraps, sent>>

Next == Decorate \/ Send \/ Receive

Spec == Init /\ [][Next]_vars

-----------------------------------------------------------------------------
(* ToGRPCStatus "translates an error to a GRPC status": a handler that     *)
(* fails makes the client's call fail.  An error whose code is OK (from    *)
(* NewError, ErrListError, NotImplementedErrorWithReason, or Wrap of one   *)
(* of those) becomes a nil status, and the client sees success.           *)
ErrorReachesClient == phase = "received" => recv # Nil

=============================================================================
