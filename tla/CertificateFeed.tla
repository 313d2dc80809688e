--------------------------- MODULE CertificateFeed ---------------------------
(***************************************************************************)
(* What TLSCertificatesRequiresV4 promises a charm that asks for one       *)
(* certificate: at any time one certificate or none is assigned to it, and *)
(* it is told of every certificate that stays assigned and valid.  Nobody  *)
(* tells it that a certificate is revoked: it stays assigned.  The         *)
(* environment that FrontendTls assumes consists of these steps.           *)
(***************************************************************************)
CONSTANTS
    None,
    Certificates  \* the certificates a provider may ever make

VARIABLES
    related,  \* the certificates relation exists
    cert,     \* get_assigned_certificate
    revoked,  \* cert is revoked
    told      \* the certificate of the last certificate_available

vars == <<related, cert, revoked, told>>

Relate ==
    /\ ~related
    /\ related' = TRUE
    /\ UNCHANGED <<cert, revoked, told>>

\* A first certificate, a renewed one, or one that fits the charm again.
Assign(c) ==
    /\ related
    /\ c # cert
    /\ cert' = c
    /\ revoked' \in BOOLEAN
    /\ UNCHANGED <<related, told>>

\* The request was renewed or no longer fits the charm's options.
Withdraw ==
    /\ related
    /\ cert # None
    /\ cert' = None
    /\ revoked' = FALSE
    /\ UNCHANGED <<related, told>>

Revoke ==
    /\ cert # None
    /\ ~revoked
    /\ revoked' = TRUE
    /\ UNCHANGED <<related, cert, told>>

Announce ==
    /\ cert # None
    /\ ~revoked
    /\ told # cert
    /\ told' = cert
    /\ UNCHANGED <<related, cert, revoked>>

Remove ==
    /\ related
    /\ related' = FALSE
    /\ cert' = None
    /\ revoked' = FALSE
    /\ UNCHANGED told

Init == related = FALSE /\ cert = None /\ revoked = FALSE /\ told = None

Next ==
    \/ Relate
    \/ \E c \in Certificates : Assign(c)
    \/ Withdraw
    \/ Revoke
    \/ Announce
    \/ Remove

\* The safety part alone.
Safe == Init /\ [][Next]_vars

Spec == Safe /\ WF_vars(Announce)
=============================================================================
