---------------------------- MODULE ConfigTrust ----------------------------
(***************************************************************************)
(* Which npmrc files may configure a token helper, and which settings of   *)
(* the route of a request a project chose (workspaces/config/lib/index.js  *)
(* and set-envs.js, as phase 1a patches them), for an npm, the npm that    *)
(* one of its scripts starts, and so on: every child reads its parent's    *)
(* settings back from the environment and runs in a directory of its own.  *)
(*                                                                         *)
(* An npmrc file is what it sets: the paths of the user and the global     *)
(* file, the route keys, a token helper. A prefix is the global file it    *)
(* gives, a file that has no origin to look at (a pipe) counts as inside   *)
(* a project, and a route key has a value or has none.                     *)
(***************************************************************************)
EXTENDS Naturals

CONSTANTS
    Files,      \* npmrc files, under their real paths
    Unset,      \* no file
    RouteKeys,  \* proxy, https-proxy, ca, cafile, strict-ssl
    Worlds,     \* what the files hold and where they are
    Starts,     \* the command lines and environments a user starts npm with
    Scripts,    \* the command lines of the npm that an npm starts
    Manifests,  \* the route keys of publishConfig
    Projects,   \* the .npmrc files of projects
    MaxLevel    \* bound: npm processes from the first to the last child

Where == {"user", "global"}

Paths == Files \union {Unset}

Rc == [userconfig : Paths, globalconfig : Paths, prefix : Paths,
       route : SUBSET RouteKeys,
       helper : {"none", "plain", "expands"}]  \* expands: names ${npm_config_*}

Empty == [userconfig |-> Unset, globalconfig |-> Unset, prefix |-> Unset,
          route |-> {}, helper |-> "none"]

World == [rc : [Files -> Rc],
          inside : SUBSET Files,    \* a directory above holds package.json or .git
          user : Files, global : Files]  \* the paths home, prefix and builtin npmrc leave

(* What the environment says that a repository chose (history).            *)
Given == [user : BOOLEAN, global : BOOLEAN, route : SUBSET RouteKeys]

Config == [cli : Rc, env : Rc, project : Rc,
           own : BOOLEAN,                 \* the project file is the user's own file
           untrusted : SUBSET Where,      \* npm_config_token_helper_untrusted
           transport : SUBSET RouteKeys,  \* npm_config_token_helper_project_transport
           given : Given]

ASSUME ConfigTrustAssumption ==
    /\ Unset \notin Files
    /\ Worlds \subseteq World
    /\ Starts \subseteq [cli : Rc, env : Rc]
    /\ Scripts \subseteq {rc \in Rc : /\ rc.userconfig = Unset
                                     /\ rc.globalconfig = Unset /\ rc.prefix = Unset}
    /\ Manifests \subseteq SUBSET RouteKeys
    /\ Projects \subseteq Files
    /\ MaxLevel \in Nat

VARIABLES
    world,      \* the files, which no npm changes
    level,      \* 0 before the first npm, 1 in it, 2 in its child, ...
    config,     \* what the running npm loaded
    published   \* the route keys of the manifest's publishConfig

vars == <<world, level, config, published>>

-----------------------------------------------------------------------------
(* The layers of npm's configuration, the ones loaded before over the      *)
(* others.                                                                 *)

Over(value, rest) == IF value # Unset THEN value ELSE rest

(* The user file before the project's .npmrc is read, which may set it.    *)
UserFile(cli, env) == Over(cli.userconfig, Over(env.userconfig, world.user))

UserPath(c) ==
    Over(c.cli.userconfig, Over(c.env.userconfig, Over(c.project.userconfig, world.user)))

UserRc(c) == world.rc[UserPath(c)]

Prefix(c) ==
    Over(c.cli.prefix,
         Over(c.env.prefix, Over(c.project.prefix, Over(UserRc(c).prefix, world.global))))

(* globalconfig is stored beneath every layer, so the last one loaded is   *)
(* the one that counts.                                                    *)
GlobalPath(c) ==
    Over(UserRc(c).globalconfig,
         Over(c.project.globalconfig,
              Over(c.env.globalconfig, Over(c.cli.globalconfig, Prefix(c)))))

Path(c, where) == IF where = "user" THEN UserPath(c) ELSE GlobalPath(c)

Layers == {"cli", "env", "project"} \union Where

Raw(c, layer) == IF layer \in Where THEN world.rc[Path(c, layer)] ELSE c[layer]

Above == [cli |-> {}, env |-> {"cli"}, project |-> {"cli", "env"},
          user |-> {"cli", "env", "project"}, global |-> Layers \ {"global"}]

(* The layer a route key has its value from.                               *)
Find(c, key, layer) ==
    key \in Raw(c, layer).route /\ \A over \in Above[layer] : key \notin Raw(c, over).route

-----------------------------------------------------------------------------
(* #trustTokenHelpers, for the user file and then for the global file.     *)

(* The project layer that is the user's own file chose nothing.            *)
ProjectRaw(c) == IF c.own THEN Empty ELSE c.project

(* The command line or the environment, and not a default, chose a file    *)
(* that lies inside a project.                                             *)
UserInside(c) ==
    /\ \E layer \in {c.cli, c.env} : layer.userconfig \notin {Unset, world.user}
    /\ UserPath(c) \in world.inside

(* Mutant of UserTrusted: what the parent did not trust is forgotten.      *)
UserTrusted_forgets_parent(c) ==
    /\ ProjectRaw(c).userconfig = Unset
    /\ ~ UserInside(c)
    /\ UserRc(c).helper # "expands"

UserTrusted(c) ==
    /\ ProjectRaw(c).userconfig = Unset
    /\ "user" \notin c.untrusted
    /\ ~ UserInside(c)
    /\ UserRc(c).helper # "expands"

(* Mutant of UserOwn: a path in the environment is always a choice.        *)
UserOwn_unknown(c, key) == Unset

(* What the user's own file sets is the user's, and a child reads it back  *)
(* from its environment.                                                   *)
UserOwn(c, key) == IF UserTrusted(c) THEN UserRc(c)[key] ELSE Unset

GlobalInside(c) ==
    /\ \E layer \in {c.cli, c.env} :
          \/ layer.globalconfig \notin {Unset, UserOwn(c, "globalconfig"),
                                        Over(UserOwn(c, "prefix"), world.global)}
          \/ layer.prefix \notin {Unset, UserOwn(c, "prefix"), world.global}
    /\ GlobalPath(c) \in world.inside

GlobalTrusted(c) ==
    /\ ProjectRaw(c).globalconfig = Unset
    /\ ProjectRaw(c).prefix = Unset
    /\ ~ UserTrusted(c) => UserRc(c).globalconfig = Unset /\ UserRc(c).prefix = Unset
    /\ "global" \notin c.untrusted
    /\ ~ GlobalInside(c)
    /\ world.rc[GlobalPath(c)].helper # "expands"

Trusted(c) == {where \in Where : IF where = "user" THEN UserTrusted(c) ELSE GlobalTrusted(c)}

Seen(c) == {where \in Where : world.rc[Path(c, where)].helper # "none"}

(* The files whose helpers npm may run.                                    *)
Configured(c) == Trusted(c) \intersect Seen(c)

-----------------------------------------------------------------------------
(* What a parent tells its children.                                       *)

Untrusted(c) == (Where \ Trusted(c)) \intersect (Seen(c) \union c.untrusted)

(* Mutant of Transport: a route of the parent's project is the user's.     *)
Transport_own_project_only(c, publishConfig) ==
    IF c.transport = {} /\ Configured(c) = {} THEN {}
    ELSE publishConfig \union
         {key \in RouteKeys : \E layer \in Layers :
            /\ Find(c, key, layer)
            /\ \/ layer = "project" /\ ~ (c.own /\ UserTrusted(c))
               \/ layer \in Where \ Trusted(c)}

(* tokenHelperProjectTransport: the route keys that a repository chose.    *)
Transport(c, publishConfig) ==
    IF c.transport = {} /\ Configured(c) = {} THEN {}
    ELSE publishConfig \union
         {key \in RouteKeys : \E layer \in Layers :
            /\ Find(c, key, layer)
            /\ \/ layer = "project" /\ ~ (c.own /\ UserTrusted(c))
               \/ layer \in Where \ Trusted(c)
               \/ layer = "env" /\ key \in c.transport}

(* set-envs: the three paths, and every route key that has a value.        *)
Exported(c) ==
    [userconfig |-> UserPath(c), globalconfig |-> GlobalPath(c), prefix |-> Prefix(c),
     route |-> {key \in RouteKeys : \E layer \in Layers : key \in Raw(c, layer).route},
     helper |-> "none"]

-----------------------------------------------------------------------------
(* Who chose a value (history): who set it, in the layer it is from.       *)

From(value, chosen, rest) == IF value # Unset THEN chosen ELSE rest

(* The project's .npmrc is the repository's, unless it is the user's file. *)
Foreign(c) == c.own => c.given.user

UserGiven(c) ==
    From(c.cli.userconfig, FALSE,
         From(c.env.userconfig, c.given.user, From(c.project.userconfig, Foreign(c), FALSE)))

GlobalGiven(c) ==
    From(UserRc(c).globalconfig, UserGiven(c),
     From(c.project.globalconfig, Foreign(c),
      From(c.env.globalconfig, c.given.global,
       From(c.cli.globalconfig, FALSE,
        From(c.cli.prefix, FALSE,
         From(c.env.prefix, c.given.global,
          From(c.project.prefix, Foreign(c),
           From(UserRc(c).prefix, UserGiven(c), FALSE))))))))

RouteGiven(c) ==
    {key \in RouteKeys : \E layer \in Layers :
       /\ Find(c, key, layer)
       /\ \/ layer = "env" /\ key \in c.given.route
          \/ layer = "project" /\ Foreign(c)
          \/ layer = "user" /\ UserGiven(c)
          \/ layer = "global" /\ GlobalGiven(c)}

-----------------------------------------------------------------------------

TypeOK ==
    /\ world \in Worlds
    /\ level \in 0 .. MaxLevel + 1
    /\ config \in Config
    /\ published \in SUBSET RouteKeys

NothingGiven == [user |-> FALSE, global |-> FALSE, route |-> {}]

Unstarted == [cli |-> Empty, env |-> Empty, project |-> Empty, own |-> FALSE,
              untrusted |-> {}, transport |-> {}, given |-> NothingGiven]

Init == world \in Worlds /\ level = 0 /\ config = Unstarted /\ published = {}

(* An npm loads its configuration. dir is the .npmrc of its project, or    *)
(* none; alias says that its path is spelled otherwise than the user       *)
(* file's, so that one file is loaded as both.                             *)
Load(cli, env, untrusted, transport, given) ==
    /\ \E dir \in Projects \union {Unset}, alias \in BOOLEAN :
          LET same == dir = UserFile(cli, env)
          IN  config' = [cli |-> cli, env |-> env,
                         project |-> IF dir = Unset \/ (same /\ ~ alias)
                                     THEN Empty ELSE world.rc[dir],
                         own |-> same /\ alias,
                         untrusted |-> untrusted, transport |-> transport, given |-> given]
    /\ level' = level + 1
    /\ published' = {}
    /\ UNCHANGED world

(* The user starts npm.                                                    *)
Start ==
    /\ level = 0
    /\ \E start \in Starts : Load(start.cli, start.env, {}, {}, NothingGiven)

(* npm runs a script that starts npm, or prepares a git dependency, which  *)
(* runs npm in its clone. Its command line chooses no file (Scripts).      *)
Child ==
    /\ level \in 1 .. MaxLevel - 1
    /\ \E cli \in Scripts :
          Load(cli, Exported(config), Untrusted(config), Transport(config, {}),
               [user |-> UserGiven(config), global |-> GlobalGiven(config),
                route |-> RouteGiven(config)])

(* publish or unpublish registers what the manifest's publishConfig says   *)
(* of the route, under the command line, or that it says nothing.          *)
SetPublishConfigRoute ==
    /\ level > 0
    /\ \E publishConfig \in Manifests : published' = publishConfig \ config.cli.route
    /\ UNCHANGED <<world, level, config>>

Next == Start \/ Child \/ SetPublishConfigRoute

Spec == Init /\ [][Next]_vars

-----------------------------------------------------------------------------

(* A helper runs only from a file that the user or the machine's owner     *)
(* chose: no project chose it, neither this one nor one of an npm above,   *)
(* though the environment no longer says so.                               *)
HelperFileIsUsers ==
    /\ "user" \in Configured(config) => ~ UserGiven(config)
    /\ "global" \in Configured(config) => ~ GlobalGiven(config)

(* Where a helper may run, npm knows every setting of the route that a     *)
(* project of its own or of an npm above chose, so as to refuse it.        *)
RouteIsKnown ==
    Configured(config) # {} => RouteGiven(config) \union published
                                   \subseteq Transport(config, published)

ProjectChoosesNoFile(c) ==
    \A key \in {"userconfig", "globalconfig", "prefix"} : ProjectRaw(c)[key] = Unset

(* Two corners in which a child takes for a choice what its parent did     *)
(* not: the default prefix given beside a user file that has another, and  *)
(* a user file, loaded as the project's too, that names another user file. *)
DefaultOverruled(c) ==
    \/ /\ world.global \in {c.cli.prefix, c.env.prefix}
       /\ UserRc(c).prefix \notin {Unset, world.global}
    \/ c.own /\ c.project.userconfig # Unset

(* A child keeps the helpers its parent honours: what the parent resolved  *)
(* from defaults and from the user's own file, and the child reads back    *)
(* from its environment, is not refused, unless its own project chooses a  *)
(* file (or in the corners above).                                         *)
TrustIsKept ==
    [][level > 0 /\ ~ DefaultOverruled(config) /\ ProjectChoosesNoFile(config)'
         => Configured(config) \subseteq Configured(config)']_vars

=============================================================================
