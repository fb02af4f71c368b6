-------------------------- MODULE MCBrowserSignIn --------------------------
(* One browser with two tabs for TLC. *)
EXTENDS BrowserSignIn

CONSTANTS t1, t2, s1

TwoTabs == {t1, t2}
EachWay == TwoTabs \X Ways
=============================================================================
