----------------------------- MODULE MCServices -----------------------------
(***************************************************************************)
(* Small instances of the services around the feed.  They share no state,  *)
(* so a behaviour exercises one of them, its focus, and leaves the others  *)
(* in a fixed initial state.                                               *)
(***************************************************************************)
EXTENDS Webhooks, Profiles, ObsWebSocket, Moderation, HostedChannels, Auth, Plugins, Activity

CONSTANTS h1, h2, h3, u1, u2, r1, m1

VARIABLE focus   \* the component whose behaviours are explored

vars == <<whVars, prVars, obVars, moVars, acVars, hoVars, auVars, plVars, avVars, focus>>

Init ==
  /\ WebhooksInit /\ ProfilesInit /\ ObsInit /\ ModerationInit
  /\ AccessInit /\ HostedInit /\ AuthInit /\ PluginsInit /\ ActivityInit
  /\ focus \in {"webhooks", "profiles", "obs", "held", "commands", "access", "hosted", "auth", "plugins",
               "views", "moments"}
  /\ focus # "webhooks" => \A e \in Endpoints : whSettings[e] = "none"
  /\ focus # "obs" => ~obCfg.enabled
  /\ focus # "access" => ~acHosted
  /\ focus # "hosted" => hoRows = <<>>
  /\ focus # "auth" => auFlow = "device" /\ ~auRow

Next ==
  \/ /\ focus = "webhooks" /\ WebhooksNext
     /\ UNCHANGED <<prVars, obVars, moVars, acVars, hoVars, auVars, plVars, avVars, focus>>
  \/ /\ focus = "profiles" /\ ProfilesNext
     /\ UNCHANGED <<whVars, obVars, moVars, acVars, hoVars, auVars, plVars, avVars, focus>>
  \/ /\ focus = "obs" /\ ObsNext
     /\ UNCHANGED <<whVars, prVars, moVars, acVars, hoVars, auVars, plVars, avVars, focus>>
  \/ /\ focus = "held" /\ HeldNext
     /\ UNCHANGED <<whVars, prVars, obVars, acVars, hoVars, auVars, plVars, avVars, focus>>
  \/ /\ focus = "commands" /\ CommandsNext
     /\ UNCHANGED <<whVars, prVars, obVars, acVars, hoVars, auVars, plVars, avVars, focus>>
  \/ /\ focus = "access" /\ AccessNext
     /\ UNCHANGED <<whVars, prVars, obVars, moVars, hoVars, auVars, plVars, avVars, focus>>
  \/ /\ focus = "hosted" /\ HostedNext
     /\ UNCHANGED <<whVars, prVars, obVars, moVars, acVars, auVars, plVars, avVars, focus>>
  \/ /\ focus = "auth" /\ AuthNext
     /\ UNCHANGED <<whVars, prVars, obVars, moVars, acVars, hoVars, plVars, avVars, focus>>
  \/ /\ focus = "plugins" /\ PluginsNext
     /\ UNCHANGED <<whVars, prVars, obVars, moVars, acVars, hoVars, auVars, avVars, focus>>
  \/ /\ focus = "views" /\ ViewsNext
     /\ UNCHANGED <<whVars, prVars, obVars, moVars, acVars, hoVars, auVars, plVars, focus>>
  \/ /\ focus = "moments" /\ MomentsNext
     /\ UNCHANGED <<whVars, prVars, obVars, moVars, acVars, hoVars, auVars, plVars, focus>>

Spec == Init /\ [][Next]_vars

-----------------------------------------------------------------------------
ChatWatched == [e \in Endpoints |-> {"message.chat"}]
Owners == [c \in HoClients |-> IF c = h3 THEN u2 ELSE u1]
TypedNumbers == {-1, 0, 1, 4, 15, 60, 128, 200}

Archive(p, digest, sources, http) ==
  [id |-> p, digest |-> digest, sources |-> sources, http |-> http, valid |-> TRUE, builtIn |-> FALSE]
\* Two versions of a plugin, one without the scope its data sources need, and
\* one that claims the name of a built-in.
Catalogue == {Archive(r1, 1, FALSE, FALSE), Archive(r1, 2, TRUE, TRUE), Archive(r1, 3, TRUE, FALSE), Archive(m1, 1, FALSE, FALSE)}

\* Requests are interchangeable, and so are the two browsers.
Symmetric == Permutations(PrCallers) \cup Permutations(Browsers)
=============================================================================
