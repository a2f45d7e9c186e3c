-------------------------- MODULE AccountVisibility --------------------------
(***************************************************************************)
(* Which fields of an account AccountFullUserProfileReadOnlySerializer     *)
(* shows (accounts/serializers.py): __init__ picks the visibility          *)
(* configuration, to_native builds the account's data and filters it by    *)
(* the whitelist _visible_fields chooses from the profile's visibility,    *)
(* which _get_profile_visibility reads from the parental-consent flag and  *)
(* the account_privacy preference.                                         *)
(*                                                                         *)
(* Data abstraction.  A field value is the pair <<user, field>>; the       *)
(* whitelists are the sets of names they list (the result is a dict keyed  *)
(* by them, so order and repetition do not show).  A configuration is a    *)
(* record whose missing keys hold Missing, the value dict.get returns.     *)
(* The preferences and consent flags of the users are any the profiles can *)
(* hold; a read does not change them.                                      *)
(***************************************************************************)
CONSTANTS
    Users,
    Fields,             \* field names a whitelist may list
    DataFields,         \* the keys of the data dict to_native builds
    Private,            \* PRIVATE_VISIBILITY
    AllUsers,           \* ALL_USERS_VISIBILITY
    PrefValues,         \* account_privacy values a user may have stored
    NoPref,             \* no preference, or a falsy one
    Missing,            \* configuration.get of a key the dict does not have
    SettingsConfig,     \* settings.ACCOUNT_VISIBILITY_CONFIGURATION
    Configs,            \* configurations a caller passes, EmptyConfig among them
    EmptyConfig,        \* a configuration dict with no key (falsy)
    NoConfig,           \* no configuration argument
    NotRead

\* A configuration dict: every key a whitelist or a visibility, or Missing.
ConfigShape(c) ==
    /\ \A k \in {"admin_fields", "shareable_fields", "public_fields"} :
          c[k] = Missing \/ c[k] \subseteq Fields
    /\ c.default_visibility \in PrefValues \cup {NoPref, Missing}

ASSUME AccountAssumption ==
    /\ DataFields \subseteq Fields
    /\ {Private, AllUsers} \subseteq PrefValues
    /\ Private # AllUsers
    /\ NoPref \notin PrefValues
    /\ ConfigShape(SettingsConfig)
    /\ EmptyConfig \in Configs
    /\ \A c \in Configs : ConfigShape(c)

VARIABLES
    pref,       \* pref[u]: UserPreference account_privacy of u
    consent,    \* consent[u]: u's profile requires parental consent
    shown       \* the last to_native result, with the inputs it was read from

vars == <<pref, consent, shown>>

\* __init__: `if not self.configuration` falls back to the settings.
Configuration(cfg) ==
    IF cfg \in {NoConfig, EmptyConfig} THEN SettingsConfig ELSE cfg

\* Mutant: the parental-consent check is left out.
GetProfileVisibilityIgnoringConsent(u, conf) ==
    IF pref[u] # NoPref THEN pref[u] ELSE conf.default_visibility

\* _get_profile_visibility
GetProfileVisibility(u, conf) ==
    IF consent[u] THEN Private
    ELSE IF pref[u] # NoPref THEN pref[u]
    ELSE conf.default_visibility

\* _visible_fields: the whitelist to show.
VisibleFields(u, admin, conf) ==
    IF admin THEN conf.admin_fields
    ELSE IF GetProfileVisibility(u, conf) = AllUsers THEN conf.shareable_fields
    ELSE conf.public_fields

\* _filter_fields over to_native's data: every whitelisted name, with the
\* account's value or None.
FilterFields(whitelist, u) ==
    [f \in whitelist |-> IF f \in DataFields THEN <<u, f>> ELSE Missing]

Init ==
    /\ pref \in [Users -> PrefValues \cup {NoPref}]
    /\ consent \in [Users -> BOOLEAN]
    /\ shown = NotRead

\* AccountFullUserProfileReadOnlySerializer(configuration=cfg,
\* admin_fields=admin).to_native(user u).  A whitelist that is Missing is
\* None, and iterating it raises TypeError: nothing is returned.
ToNative(u, admin, cfg) ==
    LET conf == Configuration(cfg)
        whitelist == VisibleFields(u, admin, conf)
    IN  /\ shown' = IF whitelist = Missing THEN NotRead
                    ELSE [user |-> u, admin |-> admin, conf |-> conf,
                          consent |-> consent[u], pref |-> pref[u],
                          fields |-> FilterFields(whitelist, u)]
        /\ UNCHANGED <<pref, consent>>

Next ==
    \E u \in Users, admin \in BOOLEAN, cfg \in Configs \cup {NoConfig} :
        ToNative(u, admin, cfg)

Spec == Init /\ [][Next]_vars

-----------------------------------------------------------------------------

\* A non-admin reader is shown more than the public fields only of an
\* account whose profile needs no parental consent and whose owner chose
\* all_users, or chose nothing under a configuration defaulting to
\* all_users: consent overrides the preference, and any other preference
\* value is private.
ShareableOnlyWhenAllUsers ==
    ( /\ shown # NotRead
      /\ ~shown.admin
      /\ ~(DOMAIN shown.fields \subseteq shown.conf.public_fields) )
    => /\ ~shown.consent
       /\ \/ shown.pref = AllUsers
          \/ shown.pref = NoPref /\ shown.conf.default_visibility = AllUsers

=============================================================================
