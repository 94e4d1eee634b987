------------------------- MODULE ConfigTrustProofs -------------------------
(***************************************************************************)
(* Proofs about ConfigTrust, for every set of files, route keys and        *)
(* worlds. What a repository chose in an npm above reaches a child as a    *)
(* value of its environment, so the invariant says how the environment and *)
(* the two lists that come with it belong together (FromParent).           *)
(***************************************************************************)
EXTENDS ConfigTrust, TLAPS

(* The first npm of a chain: nobody but the user has written its           *)
(* environment.                                                            *)
FromUser(c) == c.given = NothingGiven

HasHelper(file) == world.rc[file].helper # "none"

(* A child npm: all three paths are in its environment and none on its     *)
(* command line.                                                           *)
ParentPaths(c) ==
    /\ c.cli.userconfig = Unset /\ c.cli.globalconfig = Unset /\ c.cli.prefix = Unset
    /\ c.env.userconfig \in Files /\ c.env.globalconfig \in Files
    /\ c.env.prefix \in Files
    /\ world.rc[c.env.userconfig].globalconfig \in {Unset, c.env.globalconfig}
    /\ world.rc[c.env.userconfig].globalconfig # Unset /\ c.given.user => c.given.global

(* A file that a repository chose and that has a helper is on the list.    *)
ParentFiles(c) ==
    /\ c.given.user /\ HasHelper(c.env.userconfig) => "user" \in c.untrusted
    /\ c.given.global /\ HasHelper(c.env.globalconfig) => "global" \in c.untrusted

(* The routes of the two files are in the environment, and those that a    *)
(* repository chose are listed, if one of the files may give a helper.     *)
ParentRoutes(c) ==
    /\ world.rc[c.env.userconfig].route \subseteq c.env.route
    /\ world.rc[c.env.globalconfig].route \subseteq c.env.route
    /\ \/ c.given.route \subseteq c.transport
       \/ /\ HasHelper(c.env.userconfig) => "user" \in c.untrusted
          /\ HasHelper(c.env.globalconfig) => "global" \in c.untrusted

FromParent(c) == ParentPaths(c) /\ ParentFiles(c) /\ ParentRoutes(c)

OwnFile(c) == c.own => c.project = world.rc[UserFile(c.cli, c.env)]

Loaded(c) == OwnFile(c) /\ (FromUser(c) \/ FromParent(c))

Inv == TypeOK /\ Loaded(config)

-----------------------------------------------------------------------------
(* The files and the layers that the operators of the module look up.      *)

LEMMA PathTypes ==
    ASSUME world \in World, NEW c \in Config
    PROVE  /\ UserPath(c) \in Files
           /\ GlobalPath(c) \in Files
           /\ Prefix(c) \in Files
           /\ UserRc(c) \in Rc
           /\ world.rc[GlobalPath(c)] \in Rc
<1>1. c.cli \in Rc /\ c.env \in Rc /\ c.project \in Rc
  BY DEF Config
<1>2. /\ c.cli.userconfig \in Paths /\ c.env.userconfig \in Paths /\ c.project.userconfig \in Paths
      /\ c.cli.globalconfig \in Paths /\ c.env.globalconfig \in Paths
      /\ c.project.globalconfig \in Paths
      /\ c.cli.prefix \in Paths /\ c.env.prefix \in Paths /\ c.project.prefix \in Paths
  BY <1>1 DEF Rc
<1>3. world.user \in Files /\ world.global \in Files /\ world.rc \in [Files -> Rc]
  BY DEF World
<1>4. UserPath(c) \in Files
  BY <1>2, <1>3 DEF UserPath, Over, Paths
<1>5. UserRc(c) \in Rc
  BY <1>3, <1>4 DEF UserRc
<1>6. UserRc(c).prefix \in Paths /\ UserRc(c).globalconfig \in Paths
  BY <1>5 DEF Rc
<1>7. Prefix(c) \in Files
  BY <1>2, <1>3, <1>6 DEF Prefix, Over, Paths
<1>8. GlobalPath(c) \in Files
  BY <1>2, <1>6, <1>7 DEF GlobalPath, Over, Paths
<1> QED
  BY <1>3, <1>4, <1>5, <1>7, <1>8

LEMMA UserRaw == \A c : Raw(c, "user") = UserRc(c)
BY DEF Raw, Path, UserRc, Where

LEMMA GlobalRaw == \A c : Raw(c, "global") = world.rc[GlobalPath(c)]
BY DEF Raw, Path, Where

LEMMA OtherRaw ==
    \A c : Raw(c, "cli") = c.cli /\ Raw(c, "env") = c.env /\ Raw(c, "project") = c.project
BY DEF Raw, Where

LEMMA ConfiguredUser ==
    \A c : "user" \in Configured(c) <=> UserTrusted(c) /\ HasHelper(UserPath(c))
BY DEF Configured, Trusted, Seen, Where, Path, HasHelper

LEMMA ConfiguredGlobal ==
    \A c : "global" \in Configured(c) <=> GlobalTrusted(c) /\ HasHelper(GlobalPath(c))
BY DEF Configured, Trusted, Seen, Where, Path, HasHelper

(* A file with a helper that npm does not run is on the list for children. *)
LEMMA Listed ==
    \A c : /\ "user" \in Untrusted(c) <=> /\ ~ UserTrusted(c)
                                          /\ HasHelper(UserPath(c)) \/ "user" \in c.untrusted
           /\ "global" \in Untrusted(c) <=> /\ ~ GlobalTrusted(c)
                                            /\ HasHelper(GlobalPath(c)) \/ "global" \in c.untrusted
BY DEF Untrusted, Trusted, Seen, Where, Path, HasHelper

-----------------------------------------------------------------------------
(* Where a trusted file comes from.                                        *)

(* In a child, the user file is the parent's; so is the global file, if it *)
(* is trusted.                                                             *)
LEMMA ParentsFiles ==
    ASSUME world \in World, ConfigTrustAssumption, NEW c \in Config, OwnFile(c), ParentPaths(c)
    PROVE  /\ UserPath(c) = c.env.userconfig
           /\ UserGiven(c) = c.given.user
           /\ GlobalTrusted(c) => /\ GlobalPath(c) = c.env.globalconfig
                                  /\ GlobalGiven(c) => c.given.global
<1>1. c.env.userconfig # Unset /\ c.env.globalconfig # Unset
  BY DEF ParentPaths, ConfigTrustAssumption
<1>2. UserPath(c) = c.env.userconfig /\ UserGiven(c) = c.given.user
  BY <1>1 DEF UserPath, UserGiven, Over, From, ParentPaths
<1>3. UserRc(c) = world.rc[c.env.userconfig]
  BY <1>2 DEF UserRc
<1>4. ASSUME GlobalTrusted(c)
      PROVE  GlobalPath(c) = c.env.globalconfig /\ (GlobalGiven(c) => c.given.global)
  <2>1. CASE UserRc(c).globalconfig # Unset
    <3>1. UserRc(c).globalconfig = c.env.globalconfig
      BY <2>1, <1>3 DEF ParentPaths
    <3>2. GlobalGiven(c) = UserGiven(c)
      BY <2>1 DEF GlobalGiven, From
    <3> QED
      BY <2>1, <3>1, <3>2, <1>2, <1>3 DEF GlobalPath, Over, ParentPaths
  <2>2. CASE UserRc(c).globalconfig = Unset
    <3>1. c.project.globalconfig = Unset
      <4>1. CASE c.own
        <5>1. c.project = UserRc(c)
          BY <4>1, <1>1, <1>3 DEF OwnFile, UserFile, Over, ParentPaths
        <5> QED
          BY <5>1, <2>2
      <4>2. CASE ~ c.own
        BY <4>2, <1>4 DEF GlobalTrusted, ProjectRaw
      <4> QED
        BY <4>1, <4>2
    <3> QED
      BY <2>2, <3>1, <1>1 DEF GlobalPath, GlobalGiven, Over, From
  <2> QED
    BY <2>1, <2>2
<1> QED
  BY <1>2, <1>4

(* In the first npm, no trusted file was chosen by a repository.           *)
LEMMA UsersFiles ==
    ASSUME NEW c \in Config, FromUser(c)
    PROVE  /\ UserTrusted(c) => ~ UserGiven(c)
           /\ GlobalTrusted(c) => ~ GlobalGiven(c)
<1>1. c.given.user = FALSE /\ c.given.global = FALSE
  BY DEF FromUser, NothingGiven
<1>2. Foreign(c) = ~ c.own
  BY <1>1 DEF Foreign, Config
<1>3. ASSUME UserTrusted(c) PROVE ~ UserGiven(c)
  <2>1. c.own \/ c.project.userconfig = Unset
    BY <1>3 DEF UserTrusted, ProjectRaw
  <2> QED
    BY <2>1, <1>1, <1>2 DEF UserGiven, From
<1>4. ASSUME GlobalTrusted(c) PROVE ~ GlobalGiven(c)
  <2>1. c.own \/ (c.project.globalconfig = Unset /\ c.project.prefix = Unset)
    BY <1>4 DEF GlobalTrusted, ProjectRaw
  <2>2. UserGiven(c) => UserRc(c).globalconfig = Unset /\ UserRc(c).prefix = Unset
    BY <1>3, <1>4 DEF GlobalTrusted
  <2>3. CASE UserGiven(c)
    BY <2>1, <2>2, <2>3, <1>1, <1>2 DEF GlobalGiven, From
  <2>4. CASE ~ UserGiven(c)
    BY <2>1, <2>4, <1>1, <1>2 DEF GlobalGiven, From
  <2> QED
    BY <2>3, <2>4
<1> QED
  BY <1>3, <1>4

LEMMA NoFileGiven ==
    ASSUME world \in World, ConfigTrustAssumption, NEW c \in Config, Loaded(c)
    PROVE  /\ "user" \in Configured(c) => ~ UserGiven(c)
           /\ "global" \in Configured(c) => ~ GlobalGiven(c)
<1>1. CASE FromUser(c)
  BY <1>1, UsersFiles, ConfiguredUser, ConfiguredGlobal
<1>2. CASE FromParent(c)
  <2>1. /\ UserPath(c) = c.env.userconfig
        /\ UserGiven(c) = c.given.user
        /\ GlobalTrusted(c) => /\ GlobalPath(c) = c.env.globalconfig
                               /\ GlobalGiven(c) => c.given.global
    BY <1>2, ParentsFiles DEF Loaded, FromParent
  <2>2. "user" \in Configured(c) => ~ UserGiven(c)
    BY <1>2, <2>1, ConfiguredUser DEF FromParent, ParentFiles, UserTrusted
  <2>3. "global" \in Configured(c) => ~ GlobalGiven(c)
    BY <1>2, <2>1, ConfiguredGlobal DEF FromParent, ParentFiles, GlobalTrusted
  <2> QED
    BY <2>2, <2>3
<1> QED
  BY <1>1, <1>2 DEF Loaded

-----------------------------------------------------------------------------
(* Where a route comes from, in an npm that may run a helper.              *)

LEMMA RouteTransported ==
    ASSUME world \in World, ConfigTrustAssumption, NEW c \in Config, Loaded(c),
           Configured(c) # {}, NEW key \in RouteKeys, NEW layer \in Layers, Find(c, key, layer),
           \/ layer = "env" /\ key \in c.given.route
           \/ layer = "project" /\ Foreign(c)
           \/ layer = "user" /\ UserGiven(c)
           \/ layer = "global" /\ GlobalGiven(c)
    PROVE  \/ layer = "project" /\ ~ (c.own /\ UserTrusted(c))
           \/ layer \in Where \ Trusted(c)
           \/ layer = "env" /\ key \in c.transport
<1>1. CASE FromUser(c)
  <2>1. c.given.user = FALSE /\ c.given.route = {}
    BY <1>1 DEF FromUser, NothingGiven
  <2>2. Foreign(c) => ~ c.own
    BY <2>1 DEF Foreign, Config
  <2>3. (UserTrusted(c) => ~ UserGiven(c)) /\ (GlobalTrusted(c) => ~ GlobalGiven(c))
    BY <1>1, UsersFiles
  <2> QED
    BY <2>1, <2>2, <2>3 DEF Where, Trusted
<1>2. CASE FromParent(c)
  <2>1. /\ UserPath(c) = c.env.userconfig
        /\ GlobalTrusted(c) => GlobalPath(c) = c.env.globalconfig
    BY <1>2, ParentsFiles DEF Loaded, FromParent
  <2>2. layer \in {"project", "user", "global"} => key \notin c.env.route
    <3>1. layer \in {"project", "user", "global"} => "env" \in Above[layer]
      BY DEF Above, Layers, Where
    <3> QED
      BY <3>1, OtherRaw DEF Find
  <2>3. world.rc[c.env.userconfig].route \subseteq c.env.route
    BY <1>2 DEF FromParent, ParentRoutes
  <2>4. world.rc[c.env.globalconfig].route \subseteq c.env.route
    BY <1>2 DEF FromParent, ParentRoutes
  <2>5. CASE layer = "env"
    <3>1. /\ "user" \in Configured(c) => HasHelper(c.env.userconfig) /\ "user" \notin c.untrusted
          /\ "global" \in Configured(c)
               => HasHelper(c.env.globalconfig) /\ "global" \notin c.untrusted
      BY <2>1, ConfiguredUser, ConfiguredGlobal DEF UserTrusted, GlobalTrusted
    <3>2. "user" \in Configured(c) \/ "global" \in Configured(c)
      BY DEF Configured, Trusted, Where
    <3>3. c.given.route \subseteq c.transport
      BY <1>2, <3>1, <3>2 DEF FromParent, ParentRoutes
    <3> QED
      BY <2>5, <3>3
  <2>6. CASE layer = "project"
    <3>1. ASSUME c.own PROVE FALSE
      <4>1. c.project = world.rc[c.env.userconfig]
        BY <3>1, <1>2 DEF Loaded, OwnFile, UserFile, Over, FromParent, ParentPaths,
                          ConfigTrustAssumption
      <4>2. key \in c.project.route
        BY <2>6, OtherRaw DEF Find
      <4> QED
        BY <4>1, <4>2, <2>2, <2>3, <2>6
    <3> QED
      BY <3>1, <2>6
  <2>7. CASE layer = "user"
    <3>1. key \in world.rc[c.env.userconfig].route
      BY <2>1, <2>7, UserRaw DEF Find, UserRc
    <3> QED
      BY <3>1, <2>2, <2>3, <2>7
  <2>8. CASE layer = "global"
    <3>1. key \in world.rc[GlobalPath(c)].route
      BY <2>8, GlobalRaw DEF Find
    <3>2. ~ GlobalTrusted(c)
      BY <3>1, <2>1, <2>2, <2>4, <2>8
    <3> QED
      BY <3>2, <2>8 DEF Where, Trusted
  <2> QED
    BY <2>5, <2>6, <2>7, <2>8 DEF Layers, Where
<1> QED
  BY <1>1, <1>2 DEF Loaded

LEMMA RoutesTransported ==
    ASSUME world \in World, ConfigTrustAssumption, NEW c \in Config, Loaded(c),
           Configured(c) # {}, NEW publishConfig
    PROVE  RouteGiven(c) \union publishConfig \subseteq Transport(c, publishConfig)
<1>1. ASSUME NEW key \in RouteGiven(c) PROVE key \in Transport(c, publishConfig)
  <2>1. key \in RouteKeys
    BY <1>1 DEF RouteGiven
  <2>2. PICK layer \in Layers :
           /\ Find(c, key, layer)
           /\ \/ layer = "env" /\ key \in c.given.route
              \/ layer = "project" /\ Foreign(c)
              \/ layer = "user" /\ UserGiven(c)
              \/ layer = "global" /\ GlobalGiven(c)
    BY <1>1 DEF RouteGiven
  <2>3. \/ layer = "project" /\ ~ (c.own /\ UserTrusted(c))
        \/ layer \in Where \ Trusted(c)
        \/ layer = "env" /\ key \in c.transport
    BY <2>1, <2>2, RouteTransported
  <2> QED
    BY <2>1, <2>2, <2>3 DEF Transport
<1>2. publishConfig \subseteq Transport(c, publishConfig)
  BY DEF Transport
<1> QED
  BY <1>1, <1>2

-----------------------------------------------------------------------------
(* A child of an npm.                                                      *)

ChildOf(d, c) ==
    /\ d.cli \in Scripts
    /\ d.env = Exported(c)
    /\ d.untrusted = Untrusted(c)
    /\ d.transport = Transport(c, {})
    /\ d.given = [user |-> UserGiven(c), global |-> GlobalGiven(c), route |-> RouteGiven(c)]

LEMMA ChildPaths ==
    ASSUME world \in World, ConfigTrustAssumption, NEW c \in Config, NEW d \in Config,
           ChildOf(d, c)
    PROVE  /\ ParentPaths(d)
           /\ d.env.userconfig = UserPath(c)
           /\ d.env.globalconfig = GlobalPath(c)
           /\ d.env.prefix = Prefix(c)
           /\ d.given.user <=> UserGiven(c)
           /\ d.given.global <=> GlobalGiven(c)
           /\ d.given.route = RouteGiven(c)
<1>1. /\ d.env.userconfig = UserPath(c)
      /\ d.env.globalconfig = GlobalPath(c)
      /\ d.env.prefix = Prefix(c)
  BY DEF ChildOf, Exported
<1>2. d.given.user <=> UserGiven(c)
  BY DEF ChildOf
<1>3. d.given.global <=> GlobalGiven(c)
  BY DEF ChildOf
<1>4. d.given.route = RouteGiven(c)
  BY DEF ChildOf
<1>5. d.cli.userconfig = Unset /\ d.cli.globalconfig = Unset /\ d.cli.prefix = Unset
  BY DEF ChildOf, ConfigTrustAssumption
<1>6. /\ d.env.userconfig \in Files /\ d.env.globalconfig \in Files
      /\ d.env.prefix \in Files
  BY <1>1, PathTypes
<1>7. world.rc[UserPath(c)].globalconfig \in {Unset, GlobalPath(c)}
  BY DEF GlobalPath, Over, UserRc
<1>8. world.rc[UserPath(c)].globalconfig # Unset /\ UserGiven(c) => GlobalGiven(c)
  BY DEF GlobalGiven, From, UserRc
<1>9. ParentPaths(d)
  BY <1>1, <1>2, <1>3, <1>5, <1>6, <1>7, <1>8 DEF ParentPaths
<1> QED
  BY <1>1, <1>2, <1>3, <1>4, <1>9

LEMMA ChildFromParent ==
    ASSUME world \in World, ConfigTrustAssumption, NEW c \in Config, Loaded(c),
           NEW d \in Config, ChildOf(d, c)
    PROVE  FromParent(d)
<1>1. /\ ParentPaths(d)
      /\ d.env.userconfig = UserPath(c)
      /\ d.env.globalconfig = GlobalPath(c)
      /\ d.given.user <=> UserGiven(c)
      /\ d.given.global <=> GlobalGiven(c)
      /\ d.given.route = RouteGiven(c)
  BY ChildPaths
<1>2. d.untrusted = Untrusted(c) /\ d.transport = Transport(c, {})
  BY DEF ChildOf
<1>3. ParentFiles(d)
  <2>1. /\ UserGiven(c) /\ HasHelper(UserPath(c)) => ~ UserTrusted(c)
        /\ GlobalGiven(c) /\ HasHelper(GlobalPath(c)) => ~ GlobalTrusted(c)
    BY NoFileGiven, ConfiguredUser, ConfiguredGlobal
  <2> QED
    BY <1>1, <1>2, <2>1, Listed DEF ParentFiles
<1>4. ParentRoutes(d)
  <2>1. world.rc[UserPath(c)].route \subseteq d.env.route
    <3>1. world.rc[UserPath(c)].route \subseteq RouteKeys
      BY PathTypes DEF UserRc, Rc
    <3> QED
      BY <3>1, UserRaw DEF ChildOf, Exported, Layers, Where, UserRc
  <2>2. world.rc[GlobalPath(c)].route \subseteq d.env.route
    <3>1. world.rc[GlobalPath(c)].route \subseteq RouteKeys
      BY PathTypes DEF Rc
    <3> QED
      BY <3>1, GlobalRaw DEF ChildOf, Exported, Layers, Where
  <2>3. CASE Configured(c) = {}
    <3>1. /\ HasHelper(UserPath(c)) => "user" \in Untrusted(c)
          /\ HasHelper(GlobalPath(c)) => "global" \in Untrusted(c)
      BY <2>3, ConfiguredUser, ConfiguredGlobal, Listed
    <3> QED
      BY <2>1, <2>2, <3>1, <1>1, <1>2 DEF ParentRoutes
  <2>4. CASE Configured(c) # {}
    <3>1. RouteGiven(c) \subseteq Transport(c, {})
      BY <2>4, RoutesTransported
    <3> QED
      BY <2>1, <2>2, <3>1, <1>1, <1>2 DEF ParentRoutes
  <2> QED
    BY <2>3, <2>4
<1> QED
  BY <1>1, <1>3, <1>4 DEF FromParent

-----------------------------------------------------------------------------
(* The invariant is inductive.                                             *)

LEMMA TransportType ==
    ASSUME NEW c \in Config, NEW publishConfig \in SUBSET RouteKeys
    PROVE  Transport(c, publishConfig) \in SUBSET RouteKeys
BY DEF Transport

LEMMA LoadStep ==
    ASSUME world \in World, ConfigTrustAssumption, NEW cli \in Rc, NEW env \in Rc,
           NEW untrusted \in SUBSET Where, NEW transport \in SUBSET RouteKeys,
           NEW given \in Given, Load(cli, env, untrusted, transport, given)
    PROVE  /\ config' \in Config
           /\ OwnFile(config')
           /\ config'.cli = cli /\ config'.env = env
           /\ config'.untrusted = untrusted /\ config'.transport = transport
           /\ config'.given = given
<1>1. PICK dir \in Projects \union {Unset}, alias \in BOOLEAN :
         config' = [cli |-> cli, env |-> env,
                    project |-> IF dir = Unset \/ (dir = UserFile(cli, env) /\ ~ alias)
                                THEN Empty ELSE world.rc[dir],
                    own |-> dir = UserFile(cli, env) /\ alias,
                    untrusted |-> untrusted, transport |-> transport, given |-> given]
  BY DEF Load
<1>2. Empty \in Rc
  BY DEF Empty, Rc, Paths
<1>3. dir # Unset => world.rc[dir] \in Rc
  BY DEF World, ConfigTrustAssumption
<1>4. config'.project \in Rc
  BY <1>1, <1>2, <1>3
<1>5. (dir = UserFile(cli, env) /\ alias) \in BOOLEAN
  OBVIOUS
<1>6. config' \in Config
  BY <1>1, <1>2, <1>3, <1>5 DEF Config
<1>7. UserFile(cli, env) \in Files
  BY DEF UserFile, Over, Rc, Paths, World
<1>8. OwnFile(config')
  BY <1>1, <1>7 DEF OwnFile, ConfigTrustAssumption
<1> QED
  BY <1>1, <1>6, <1>8

LEMMA ExportedTypes ==
    ASSUME world \in World, ConfigTrustAssumption, NEW c \in Config
    PROVE  /\ Exported(c) \in Rc
           /\ Untrusted(c) \in SUBSET Where
           /\ Transport(c, {}) \in SUBSET RouteKeys
           /\ [user |-> UserGiven(c), global |-> GlobalGiven(c), route |-> RouteGiven(c)] \in Given
<1>1. Exported(c) \in Rc
  BY PathTypes DEF Exported, Rc, Paths
<1>2. Untrusted(c) \in SUBSET Where
  BY DEF Untrusted
<1>3. Transport(c, {}) \in SUBSET RouteKeys
  BY TransportType
<1>4. c.given.user \in BOOLEAN /\ c.given.global \in BOOLEAN /\ Foreign(c) \in BOOLEAN
  BY DEF Config, Given, Foreign
<1>5. UserGiven(c) \in BOOLEAN
  BY <1>4 DEF UserGiven, From
<1>6. GlobalGiven(c) \in BOOLEAN
  BY <1>4, <1>5 DEF GlobalGiven, From
<1>7. RouteGiven(c) \in SUBSET RouteKeys
  BY DEF RouteGiven
<1> QED
  BY <1>1, <1>2, <1>3, <1>5, <1>6, <1>7 DEF Given

LEMMA InvInit ==
    ASSUME ConfigTrustAssumption, Init
    PROVE  Inv
<1>1. Empty \in Rc
  BY DEF Empty, Rc, Paths
<1>2. NothingGiven \in Given
  BY DEF NothingGiven, Given
<1>3. config \in Config
  BY <1>1, <1>2 DEF Init, Unstarted, Config
<1>4. level \in 0 .. MaxLevel + 1
  BY DEF Init, ConfigTrustAssumption
<1>5. Loaded(config)
  BY DEF Init, Unstarted, Loaded, OwnFile, FromUser
<1> QED
  BY <1>3, <1>4, <1>5 DEF Init, Inv, TypeOK

(* What is said of a configuration and the files is said of them later.    *)
LEMMA LoadedStays ==
    ASSUME world' = world, Loaded(config')
    PROVE  Loaded(config)'
BY DEF Loaded, OwnFile, UserFile, FromUser, FromParent, ParentPaths, ParentFiles, ParentRoutes,
       HasHelper

LEMMA ChildStep ==
    ASSUME ConfigTrustAssumption, Inv, Child
    PROVE  config' \in Config /\ OwnFile(config') /\ ChildOf(config', config)
<1>1. world \in World
  BY DEF Inv, TypeOK, ConfigTrustAssumption
<1>2. config \in Config
  BY DEF Inv, TypeOK
<1>3. PICK cli \in Scripts :
         Load(cli, Exported(config), Untrusted(config), Transport(config, {}),
              [user |-> UserGiven(config), global |-> GlobalGiven(config),
               route |-> RouteGiven(config)])
  BY DEF Child
<1>4. cli \in Rc
  BY DEF ConfigTrustAssumption
<1>5. /\ config' \in Config
      /\ OwnFile(config')
      /\ config'.cli = cli /\ config'.env = Exported(config)
      /\ config'.untrusted = Untrusted(config) /\ config'.transport = Transport(config, {})
      /\ config'.given = [user |-> UserGiven(config), global |-> GlobalGiven(config),
                          route |-> RouteGiven(config)]
  BY <1>1, <1>2, <1>3, <1>4, ExportedTypes, LoadStep
<1> QED
  BY <1>5 DEF ChildOf

LEMMA InvStep ==
    ASSUME ConfigTrustAssumption, Inv, [Next]_vars
    PROVE  Inv'
<1> USE DEF Inv
<1>1. world \in World /\ config \in Config
  BY DEF TypeOK, ConfigTrustAssumption
<1>2. CASE Start
  <2>1. PICK start \in Starts : Load(start.cli, start.env, {}, {}, NothingGiven)
    BY <1>2 DEF Start
  <2>2. start.cli \in Rc /\ start.env \in Rc
    BY DEF ConfigTrustAssumption
  <2>3. NothingGiven \in Given
    BY DEF NothingGiven, Given
  <2>4. config' \in Config /\ OwnFile(config') /\ config'.given = NothingGiven
    BY <1>1, <2>1, <2>2, <2>3, LoadStep
  <2>5. world' = world /\ published' = {} /\ level' = level + 1
    BY <2>1 DEF Load
  <2>6. level' \in 0 .. MaxLevel + 1
    BY <1>2, <2>5 DEF Start, ConfigTrustAssumption
  <2>7. Loaded(config)'
    BY <2>4, <2>5, LoadedStays DEF Loaded, FromUser
  <2> QED
    BY <2>4, <2>5, <2>6, <2>7 DEF TypeOK
<1>3. CASE Child
  <2>1. config' \in Config /\ OwnFile(config') /\ ChildOf(config', config)
    BY <1>3, ChildStep
  <2>2. FromParent(config')
    BY <1>1, <2>1, ChildFromParent
  <2>3. world' = world /\ published' = {} /\ level' = level + 1
    BY <1>3 DEF Child, Load
  <2>4. level' \in 0 .. MaxLevel + 1
    BY <1>3, <2>3 DEF Child, ConfigTrustAssumption
  <2>5. Loaded(config)'
    BY <2>1, <2>2, <2>3, LoadedStays DEF Loaded
  <2> QED
    BY <2>1, <2>3, <2>4, <2>5 DEF TypeOK
<1>4. CASE SetPublishConfigRoute
  <2>1. world' = world /\ config' = config /\ level' = level
    BY <1>4 DEF SetPublishConfigRoute
  <2>2. published' \in SUBSET RouteKeys
    BY <1>4 DEF SetPublishConfigRoute, ConfigTrustAssumption
  <2>3. Loaded(config)'
    BY <2>1, LoadedStays
  <2> QED
    BY <2>1, <2>2, <2>3 DEF TypeOK
<1>5. CASE UNCHANGED vars
  <2>1. world' = world /\ config' = config /\ level' = level /\ published' = published
    BY <1>5 DEF vars
  <2> QED
    BY <2>1, LoadedStays DEF TypeOK
<1> QED
  BY <1>2, <1>3, <1>4, <1>5 DEF Next

LEMMA Invariance == Spec => []Inv
<1>1. Init => Inv
  BY InvInit, ConfigTrustAssumption
<1>2. Inv /\ [Next]_vars => Inv'
  BY InvStep, ConfigTrustAssumption
<1> QED
  BY <1>1, <1>2, PTL DEF Spec

-----------------------------------------------------------------------------
(* What a child trusts of what its parent trusted.                         *)

(* A trusted user file is the default one or lies outside every project.   *)
LEMMA UserFileKept ==
    ASSUME world \in World, ConfigTrustAssumption, NEW c \in Config, ~ DefaultOverruled(c),
           NEW d \in Config, ChildOf(d, c), ProjectChoosesNoFile(d), UserTrusted(c)
    PROVE  UserTrusted(d)
<1>1. /\ ParentPaths(d)
      /\ d.env.userconfig = UserPath(c)
  BY ChildPaths
<1>2. UserPath(d) = UserPath(c)
  BY <1>1, PathTypes DEF UserPath, Over, ParentPaths, ConfigTrustAssumption
<1>3. "user" \notin d.untrusted
  BY Listed DEF ChildOf
<1>4. c.project.userconfig = Unset
  BY DEF DefaultOverruled, UserTrusted, ProjectRaw
<1>5. UserPath(c) = world.user \/ UserPath(c) \notin world.inside
  BY <1>4 DEF UserTrusted, UserInside, UserPath, Over
<1>6. ~ UserInside(d)
  BY <1>1, <1>2, <1>5 DEF UserInside, ParentPaths
<1> QED
  BY <1>2, <1>3, <1>6 DEF UserTrusted, UserRc, ProjectChoosesNoFile

LEMMA GlobalFileKept ==
    ASSUME world \in World, ConfigTrustAssumption, NEW c \in Config, ~ DefaultOverruled(c),
           OwnFile(c), NEW d \in Config, OwnFile(d), ChildOf(d, c), ProjectChoosesNoFile(d),
           GlobalTrusted(c)
    PROVE  GlobalTrusted(d) /\ GlobalPath(d) = GlobalPath(c)
<1> DEFINE userGlobal == UserRc(c).globalconfig
           userPrefix == UserRc(c).prefix
<1>1. /\ ParentPaths(d)
      /\ d.env.userconfig = UserPath(c)
      /\ d.env.globalconfig = GlobalPath(c)
      /\ d.env.prefix = Prefix(c)
  BY ChildPaths
<1>2. d.env.userconfig # Unset /\ d.env.globalconfig # Unset
  BY <1>1 DEF ParentPaths, ConfigTrustAssumption
<1>3. UserRc(d) = UserRc(c)
  BY <1>1, <1>2 DEF UserRc, UserPath, Over, ParentPaths
<1>4. GlobalPath(d) = GlobalPath(c)
  <2>1. CASE userGlobal # Unset
    BY <2>1, <1>3 DEF GlobalPath, Over
  <2>2. CASE userGlobal = Unset
    <3>1. d.project.globalconfig = Unset
      <4>1. CASE d.own
        <5>1. d.project = UserRc(c)
          BY <4>1, <1>1, <1>2 DEF OwnFile, UserFile, Over, ParentPaths, UserRc
        <5> QED
          BY <5>1, <2>2
      <4>2. CASE ~ d.own
        BY <4>2 DEF ProjectChoosesNoFile, ProjectRaw
      <4> QED
        BY <4>1, <4>2
    <3> QED
      BY <3>1, <2>2, <1>1, <1>2, <1>3 DEF GlobalPath, Over
  <2> QED
    BY <2>1, <2>2
<1>5. /\ UserOwn(c, "globalconfig") = userGlobal
      /\ UserOwn(c, "prefix") = userPrefix
  BY DEF UserOwn, GlobalTrusted
<1>6. UserTrusted(c) => UserTrusted(d)
  BY UserFileKept
<1>7. /\ UserOwn(d, "globalconfig") = userGlobal
      /\ UserOwn(d, "prefix") = userPrefix
  BY <1>3, <1>6 DEF UserOwn, GlobalTrusted
<1>8. ~ UserTrusted(d) => UserRc(d).globalconfig = Unset /\ UserRc(d).prefix = Unset
  BY <1>3, <1>6 DEF GlobalTrusted
<1>9. "global" \notin d.untrusted
  BY Listed DEF ChildOf
<1>10. ~ GlobalInside(d)
  <2> SUFFICES ASSUME GlobalPath(c) \in world.inside PROVE ~ GlobalInside(d)
    BY <1>4 DEF GlobalInside
  <2>1. /\ c.cli.globalconfig \in {Unset, userGlobal, Over(userPrefix, world.global)}
        /\ c.env.globalconfig \in {Unset, userGlobal, Over(userPrefix, world.global)}
        /\ c.cli.prefix \in {Unset, userPrefix, world.global}
        /\ c.env.prefix \in {Unset, userPrefix, world.global}
    BY <1>5 DEF GlobalTrusted, GlobalInside
  <2>2. /\ c.project.globalconfig \in {Unset, userGlobal}
        /\ c.project.prefix \in {Unset, userPrefix}
    <3>1. CASE c.own
      <4>1. c.project.userconfig = Unset
        BY <3>1 DEF DefaultOverruled
      <4>2. c.project = UserRc(c)
        BY <3>1, <4>1 DEF OwnFile, UserFile, UserRc, UserPath, Over
      <4> QED
        BY <4>2
    <3>2. CASE ~ c.own
      BY <3>2 DEF GlobalTrusted, ProjectRaw
    <3> QED
      BY <3>1, <3>2
  <2>3. userPrefix \notin {Unset, world.global}
          => c.cli.prefix # world.global /\ c.env.prefix # world.global
    BY DEF DefaultOverruled
  <2>4. Prefix(c) = Over(userPrefix, world.global)
    BY <2>1, <2>2, <2>3 DEF Prefix, Over
  <2>5. GlobalPath(c) \in {userGlobal, Over(userPrefix, world.global)}
    BY <2>1, <2>2, <2>4 DEF GlobalPath, Over
  <2>6. Prefix(c) \in {userPrefix, world.global}
    BY <2>4 DEF Over
  <2> QED
    BY <1>1, <1>7, <2>5, <2>6 DEF GlobalInside, ParentPaths
<1> QED
  BY <1>4, <1>8, <1>9, <1>10 DEF GlobalTrusted, ProjectChoosesNoFile

LEMMA ConfiguredKept ==
    ASSUME world \in World, ConfigTrustAssumption, NEW c \in Config, ~ DefaultOverruled(c),
           OwnFile(c), NEW d \in Config, OwnFile(d), ChildOf(d, c), ProjectChoosesNoFile(d)
    PROVE  Configured(c) \subseteq Configured(d)
<1>1. "user" \in Configured(c) => "user" \in Configured(d)
  <2>1. UserPath(d) = UserPath(c)
    BY ChildPaths, PathTypes DEF UserPath, Over, ParentPaths, ConfigTrustAssumption
  <2> QED
    BY <2>1, UserFileKept, ConfiguredUser
<1>2. "global" \in Configured(c) => "global" \in Configured(d)
  BY GlobalFileKept, ConfiguredGlobal
<1> QED
  BY <1>1, <1>2 DEF Configured, Trusted, Where

-----------------------------------------------------------------------------

(* Every configuration npm loads, and every list it hands on, has its type.*)
THEOREM TypeCorrect == Spec => []TypeOK
<1>1. Inv => TypeOK
  BY DEF Inv
<1> QED
  BY <1>1, Invariance, PTL

(* However npm processes start one another, in whatever directories, a     *)
(* helper runs only from a file that no project chose (#trustTokenHelpers, *)
(* tokenHelperUntrusted and the list in set-envs).                         *)
THEOREM HelperFilesAreUsers == Spec => []HelperFileIsUsers
<1>1. Inv => HelperFileIsUsers
  BY NoFileGiven, ConfigTrustAssumption DEF Inv, TypeOK, HelperFileIsUsers, ConfigTrustAssumption
<1> QED
  BY <1>1, Invariance, PTL

(* Where a helper may run, every route setting that a project chose, here  *)
(* or above, is known as such (tokenHelperProjectTransport).               *)
THEOREM RoutesAreKnown == Spec => []RouteIsKnown
<1>1. Inv => RouteIsKnown
  BY RoutesTransported, ConfigTrustAssumption
     DEF Inv, TypeOK, RouteIsKnown, ConfigTrustAssumption
<1> QED
  BY <1>1, Invariance, PTL

(* A child honours the helpers its parent does, unless its own project     *)
(* chooses a file: what #chosenInsideProject must not take for a choice.   *)
THEOREM TrustStays == Spec => TrustIsKept
<1> DEFINE Kept == level > 0 /\ ~ DefaultOverruled(config) /\ ProjectChoosesNoFile(config)'
                     => Configured(config) \subseteq Configured(config)'
<1>1. ASSUME Inv, Next PROVE Kept \/ UNCHANGED vars
  <2>1. world \in World /\ config \in Config /\ Loaded(config)
    BY <1>1, ConfigTrustAssumption DEF Inv, TypeOK, ConfigTrustAssumption
  <2>2. CASE Start
    BY <2>2 DEF Start
  <2>3. CASE Child
    <3>1. config' \in Config /\ OwnFile(config') /\ ChildOf(config', config)
      BY <1>1, <2>3, ChildStep, ConfigTrustAssumption
    <3>2. world' = world
      BY <2>3 DEF Child, Load
    <3>3. ProjectChoosesNoFile(config)' = ProjectChoosesNoFile(config')
      BY DEF ProjectChoosesNoFile, ProjectRaw
    <3>4. ProjectChoosesNoFile(config') /\ ~ DefaultOverruled(config)
             => Configured(config) \subseteq Configured(config')
      BY <2>1, <3>1, ConfiguredKept, ConfigTrustAssumption DEF Loaded
    <3>5. Configured(config)' = Configured(config')
      BY <3>2 DEF Configured, Trusted, Seen, Path, UserTrusted, GlobalTrusted, UserInside,
                  GlobalInside, UserOwn, UserRc, UserPath, GlobalPath, Prefix, Over, ProjectRaw
    <3> QED
      BY <3>3, <3>4, <3>5
  <2>4. CASE SetPublishConfigRoute
    <3>1. Configured(config)' = Configured(config)
      BY <2>4 DEF SetPublishConfigRoute, Configured, Trusted, Seen, Path, UserTrusted,
                  GlobalTrusted, UserInside, GlobalInside, UserOwn, UserRc, UserPath, GlobalPath,
                  Prefix, Over, ProjectRaw
    <3> QED
      BY <3>1
  <2> QED
    BY <1>1, <2>2, <2>3, <2>4 DEF Next
<1>2. Inv /\ [Next]_vars => [Kept]_vars
  BY <1>1
<1> QED
  BY <1>2, Invariance, PTL DEF Spec, TrustIsKept

=============================================================================
