----------------------------- MODULE MCPhoneApp -----------------------------
(* The hosted relay, a desktop on the LAN, a remote plaintext one, a typo. *)
EXTENDS PhoneApp

Url(scheme, local) == [scheme |-> scheme, local |-> local]
MCUrls == {Url("wss", FALSE), Url("ws", TRUE), Url("ws", FALSE), Url("http", FALSE)}
=============================================================================
