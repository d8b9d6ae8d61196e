------------------------------- MODULE Accounts -------------------------------
(***************************************************************************)
(* The way into an account: the attempts to log in, which come from        *)
(* anywhere, and the sessions of the account, opened once a password is    *)
(* right.  They share no row: login_attempts and sessions are two tables.  *)
(***************************************************************************)
EXTENDS LoginThrottle, Sessions

\* Rows of attempts that count stand, and what has ended is never served again.
AccountsInv == ThrottleInv /\ SessionsInv
=============================================================================
