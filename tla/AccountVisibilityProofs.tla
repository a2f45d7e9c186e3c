---------------------- MODULE AccountVisibilityProofs ----------------------
(***************************************************************************)
(* Proof that AccountFullUserProfileReadOnlySerializer shows a non-admin   *)
(* reader more than the public fields only of an account that is shared   *)
(* with all users, for every set of users, fields, preference values and   *)
(* configurations the assumptions allow.                                   *)
(*                                                                         *)
(* ShareableOnlyWhenAllUsers is a fact about the last to_native result     *)
(* alone, and each to_native replaces it, so it is inductive by itself:    *)
(* the argument is about one call.  The dict _filter_fields builds has the *)
(* whitelist as its keys; a whitelist that is not the public one was       *)
(* chosen by _visible_fields because _get_profile_visibility returned      *)
(* all_users, which it does only when no parental consent is needed and   *)
(* the preference, or the default when there is none, is all_users.        *)
(***************************************************************************)
EXTENDS AccountVisibility, TLAPS

USE AccountAssumption

\* The property for one to_native result r.
Sound(r) ==
    ( /\ r # NotRead
      /\ ~r.admin
      /\ ~(DOMAIN r.fields \subseteq r.conf.public_fields) )
    => /\ ~r.consent
       /\ \/ r.pref = AllUsers
          \/ r.pref = NoPref /\ r.conf.default_visibility = AllUsers

(***************************************************************************)
(* A non-admin whitelist other than the public fields is the shareable    *)
(* one, chosen because the profile's visibility is all_users.              *)
(***************************************************************************)
LEMMA NotPublicMeansAllUsers ==
    ASSUME NEW u, NEW conf,
           ~(VisibleFields(u, FALSE, conf) \subseteq conf.public_fields)
    PROVE  GetProfileVisibility(u, conf) = AllUsers
BY DEF VisibleFields

(***************************************************************************)
(* _get_profile_visibility returns all_users only for a profile without    *)
(* parental consent whose owner chose all_users, or chose nothing under a  *)
(* configuration defaulting to all_users.                                  *)
(***************************************************************************)
LEMMA AllUsersVisibility ==
    ASSUME NEW u, NEW conf, GetProfileVisibility(u, conf) = AllUsers
    PROVE  /\ ~consent[u]
           /\ \/ pref[u] = AllUsers
              \/ pref[u] = NoPref /\ conf.default_visibility = AllUsers
BY DEF GetProfileVisibility

\* Each to_native result satisfies the property.
LEMMA ToNativeSound ==
    ASSUME NEW u \in Users, NEW admin \in BOOLEAN, NEW cfg,
           ToNative(u, admin, cfg)
    PROVE  Sound(shown')
<1> DEFINE conf == Configuration(cfg)
           whitelist == VisibleFields(u, admin, conf)
<1>1. CASE whitelist = Missing
  BY <1>1 DEF ToNative, Sound
<1>2. CASE whitelist # Missing
  <2> SUFFICES ASSUME ~admin, ~(whitelist \subseteq conf.public_fields)
               PROVE  /\ ~consent[u]
                      /\ \/ pref[u] = AllUsers
                         \/ pref[u] = NoPref /\ conf.default_visibility = AllUsers
    BY <1>2 DEF ToNative, Sound, FilterFields
  <2>1. GetProfileVisibility(u, conf) = AllUsers
    BY NotPublicMeansAllUsers
  <2>2. QED
    BY <2>1, AllUsersVisibility
<1>3. QED
  BY <1>1, <1>2

(***************************************************************************)
(* For every account, reader and configuration, a non-admin reader is      *)
(* shown more than the public fields only of a profile that needs no       *)
(* parental consent and whose owner chose all_users, or chose nothing      *)
(* under a configuration defaulting to all_users: the property             *)
(* ShareableOnlyWhenAllUsers of run account_visibility.                    *)
(***************************************************************************)
THEOREM VisibilityRespectsPrivacy == Spec => []ShareableOnlyWhenAllUsers
<1>1. Init => Sound(shown)
  BY DEF Init, Sound
<1>2. Sound(shown) /\ [Next]_vars => (Sound(shown))'
  <2> SUFFICES ASSUME Sound(shown), [Next]_vars PROVE Sound(shown')
    OBVIOUS
  <2>1. CASE Next
    BY <2>1, ToNativeSound DEF Next
  <2>2. CASE UNCHANGED vars
    BY <2>2 DEF vars
  <2>3. QED
    BY <2>1, <2>2
<1>3. Sound(shown) => ShareableOnlyWhenAllUsers
  BY DEF Sound, ShareableOnlyWhenAllUsers
<1>4. QED
  BY <1>1, <1>2, <1>3, PTL DEF Spec

=============================================================================
