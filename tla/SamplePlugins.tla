---------------------------- MODULE SamplePlugins ----------------------------
(***************************************************************************)
(* The sample plugins of plugins/samples other than lua.  A proxy loads one *)
(* of them; the families do not share state, so a behaviour of the whole is *)
(* a behaviour of one family while the others keep still.                   *)
(***************************************************************************)
EXTENDS CookiePlugins, AccessPlugins, BodyPlugins, RewritePlugins

VARIABLE family     \* the family the loaded plugin belongs to

sampleVars == <<family, cookieVars, accessVars, bodyVars, rewriteVars>>

SampleInit ==
    /\ family \in {"cookies", "access", "bodies", "rewrites"}
    /\ CookieInit /\ AccessInit /\ BodyInit /\ RewriteInit

Only(name) == family = name /\ UNCHANGED family

SampleNext ==
    \/ /\ Only("cookies") /\ CookieNext
       /\ UNCHANGED <<accessVars, bodyVars, rewriteVars>>
    \/ /\ Only("access") /\ AccessNext
       /\ UNCHANGED <<cookieVars, bodyVars, rewriteVars>>
    \/ /\ Only("bodies") /\ BodyNext
       /\ UNCHANGED <<cookieVars, accessVars, rewriteVars>>
    \/ /\ Only("rewrites") /\ RewriteNext
       /\ UNCHANGED <<cookieVars, accessVars, bodyVars>>

SampleSpec == SampleInit /\ [][SampleNext]_sampleVars
=============================================================================
