----------------------------- MODULE OAuthFlowMC -----------------------------
(* The OAuth flow with a few hits on its listener, given by the cfg.        *)
EXTENDS OAuthFlow

\* One of each that the flow treats differently: no parameters, an earlier flow's
\* redirect, a code without a state, and an error that says nothing.
SomeOthers ==
    {Bare, [Bare EXCEPT !.code = "other code", !.state = "other"],
     [Bare EXCEPT !.code = "other code"], [Bare EXCEPT !.error = Empty]}
=============================================================================
