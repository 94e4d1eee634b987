--------------------------- MODULE MCConfigTrust ---------------------------
(* The npmrc files for TLC: the user's default file, the default global    *)
(* file, another one that nothing marks as a project's, and those of two   *)
(* projects. One project is marked, and perhaps the other and the global   *)
(* prefix are.                                                             *)
EXTENDS ConfigTrust

CONSTANTS home, etc, other, p1, p2, proxy, ca

Sets(settings) == [key \in DOMAIN Empty |-> IF key \in DOMAIN settings THEN settings[key] ELSE Empty[key]]

HomeRcs == {Sets([helper |-> "plain"]),
            Sets([helper |-> "plain", globalconfig |-> p2, route |-> {ca}]),
            Sets([helper |-> "plain", prefix |-> p2]),
            Sets([helper |-> "plain", userconfig |-> p2]),
            Sets([helper |-> "expands", prefix |-> other])}

EtcRcs == {Empty, Sets([helper |-> "plain", route |-> {proxy}])}

OtherRcs == {Sets([helper |-> "plain", route |-> {proxy}]),
             Sets([globalconfig |-> p2, route |-> {ca}])}

P1Rcs == {Sets([route |-> {proxy}]), Sets([userconfig |-> other]),
          Sets([userconfig |-> p2, route |-> {ca}]),
          Sets([globalconfig |-> other]), Sets([prefix |-> other, route |-> {proxy, ca}])}

P2Rcs == {Sets([helper |-> "plain"]), Sets([helper |-> "plain", globalconfig |-> other]),
          Sets([userconfig |-> home, route |-> {proxy}])}

Contents ==
    {[f \in Files |-> CASE f = home -> h [] f = etc -> e [] f = other -> o
                        [] f = p1 -> a [] f = p2 -> b] :
        h \in HomeRcs, e \in EtcRcs, o \in OtherRcs, a \in P1Rcs, b \in P2Rcs}

Trees == [rc : Contents, inside : {{p1}, {p1, p2, etc}}, user : {home}, global : {etc}]

Settings == {Empty, Sets([userconfig |-> other]), Sets([userconfig |-> p2]),
             Sets([globalconfig |-> other]), Sets([prefix |-> p2]), Sets([prefix |-> etc]),
             Sets([route |-> {ca}])}

(* One of the two is empty, or the environment has a route of the user's.  *)
UserStarts == {s \in [cli : Settings, env : Settings] :
                 Empty \in {s.cli, s.env} \/ s.env.route # {}}

ScriptLines == {Empty, Sets([route |-> {ca}])}

=============================================================================
