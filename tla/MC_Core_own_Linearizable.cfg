CONSTANTS
    Tasks = {t1, t2, t3}
    Hosts = {h1, h2}
    Instances = {i1, i2}
    Creator = t1
    NoEntry = NoEntry
    NoTask = NoTask
    InstanceOf <- MCOwnInstance
SPECIFICATION Spec
PROPERTY Linearizable
