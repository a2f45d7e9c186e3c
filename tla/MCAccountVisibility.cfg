CONSTANTS
    u1 = u1   u2 = u2
    username = username   email = email   bio = bio   url = url
    private = private   all_users = all_users   custom = custom
    NoPref = NoPref   Missing = Missing   NoConfig = NoConfig   NotRead = NotRead
    Users <- MCUsers
    Fields <- MCFields
    DataFields <- MCDataFields
    Private = private
    AllUsers = all_users
    PrefValues <- MCPrefValues
    SettingsConfig <- MCSettingsConfig
    EmptyConfig <- MCEmptyConfig
    Configs <- MCConfigs
SPECIFICATION Spec
INVARIANT ShareableOnlyWhenAllUsers
