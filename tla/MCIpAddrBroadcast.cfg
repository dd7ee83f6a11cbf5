CONSTANTS
    Addresses <- MCAddresses
    Prefixes = {0, 7, 8, 23, 24, 25, 31, 32}
SPECIFICATION IpAddrSpec
INVARIANT BroadcastIsRecognised
