------------------------ MODULE MCAccountVisibility -------------------------
EXTENDS AccountVisibility, TLC

CONSTANTS u1, u2, username, email, bio, url, private, all_users, custom

MCUsers == {u1, u2}
MCFields == {username, email, bio, url}
\* to_native's dict has no "url" key in this abstraction of the whitelists:
\* a configuration naming it gets None for it.
MCDataFields == {username, email, bio}
MCPrefValues == {private, all_users, custom}
\* The settings: every field for admins, more for all_users than public.
MCSettingsConfig ==
    [admin_fields |-> {username, email, bio}, shareable_fields |-> {username, bio},
     public_fields |-> {username}, default_visibility |-> all_users]
MCEmptyConfig ==
    [admin_fields |-> Missing, shareable_fields |-> Missing,
     public_fields |-> Missing, default_visibility |-> Missing]
\* The teams serializers' configuration: a copy of the settings with url
\* added to the shareable and public whitelists.
MCTeamConfig ==
    [admin_fields |-> {username, email, bio},
     shareable_fields |-> {username, bio, url},
     public_fields |-> {username, url}, default_visibility |-> all_users]
\* A configuration defaulting to private.
MCPrivateConfig ==
    [admin_fields |-> {username, email, bio}, shareable_fields |-> {username, bio},
     public_fields |-> {username}, default_visibility |-> private]
MCConfigs == {MCEmptyConfig, MCTeamConfig, MCPrivateConfig}
=============================================================================
