SPECIFICATION Spec
CONSTANTS
    com = com
    shop = shop
    www = www
    ads = ads
    social = social
    kids = kids
    c1 = c1
    Default = Default
    Custom = Custom
    None = None
    Labels <- MCLabels
    Valid <- MCLabels
    Lists = {ads, social}
    Configs <- MCConfigs
    Patterns <- MCPatterns
    Names <- MCNames
    Clients = {c1}
    Groups = {Default, kids}
    Queries = {q1}
    Refs = {1, 2, 3, 4, 5, 6}
    Feeds <- MCFeeds
    Times <- MCTimes
    WeekDays = 3
    DayMinutes = 3
    MaxUpdates = 4
INVARIANT
    Consistent
