SPECIFICATION Spec
CONSTANTS
    d1 = d1  d2 = d2  alice = alice  bob = bob  staff = staff  guests = guests
    wan = wan  office = office  wan6 = wan6  lab6 = lab6  site = site
    Devices = {d1, d2}
    Owners = {alice, bob}
    Mapped = {alice}
    OwnerOf <- OwnersOfDevices
    Policies = {staff, guests}
    Grants <- SomeGrants
    Nets = {wan, office, wan6, lab6, site}
    NetFamily <- Family
    NetHosts <- NetworkHosts
    Hosts = {"web", "desk", "far", "dark"}
    AllowedIPs = {wan, wan6}
    PolicyNets <- NetsOfPolicies
    Routable = {site}
    Confs <- SomeConfs
    Tables <- InUse
    MaxWrites = 2
    MaxFails = 1
    MaxStarts = 2
    Server = Server  NoDevice = NoDevice  Nobody = Nobody
CONSTRAINT Budget
CHECK_DEADLOCK FALSE
INVARIANTS RulesFollow NeverOpen AnswersReturn
